---- MODULE Spec2Model ----
(***************************************************************************)
(* A model of the JSONPath compiler and evaluator of larksuite/jsonpath    *)
(* (src/jsonpath.go): tokenizer, operation parser, filter grammar, generic *)
(* accessors, comparator, Lookup with its step cursor, Set and decompile.  *)
(*                                                                         *)
(* Text (paths, keys, string values) is a sequence of one-character        *)
(* strings, so that the tokenizer and the parsers work on characters the   *)
(* way the Go code does.  Document values are tagged records.              *)
(***************************************************************************)
EXTENDS Integers, Sequences, FiniteSets, TLC

(***************************************************************************)
(* Document values (Go: interface{} as produced by encoding/json).         *)
(* Every value carries all five fields so that any two values compare.     *)
(***************************************************************************)
Null == [t |-> "null", n |-> 0, s |-> <<>>, a |-> <<>>, m |-> <<>>]

Num(i) == [t |-> "num", n |-> i, s |-> <<>>, a |-> <<>>, m |-> <<>>]

Str(cs) == [t |-> "str", n |-> 0, s |-> cs, a |-> <<>>, m |-> <<>>]

\* A Go bool.
Bool(b) == [t |-> "bool", n |-> IF b THEN 1 ELSE 0, s |-> <<>>, a |-> <<>>, m |-> <<>>]

Arr(items) == [t |-> "arr", n |-> 0, s |-> <<>>, a |-> items, m |-> <<>>]

\* A JSON object from a sequence of <<key, value>> pairs with distinct keys.
Map(pairs) ==
  [t |-> "map", n |-> 0, s |-> <<>>, a |-> <<>>,
   m |-> [k \in {pairs[i][1] : i \in 1..Len(pairs)} |->
            LET i == CHOOSE j \in 1..Len(pairs) : pairs[j][1] = k IN pairs[i][2]]]

\* reflect.TypeOf(obj).Kind(), with "nil" for the nil interface.
Kind(v) ==
  CASE v.t = "null" -> "nil"
    [] v.t = "arr"  -> "slice"
    [] v.t = "map"  -> "map"
    [] OTHER        -> "scalar"

(***************************************************************************)
(* Text helpers: the functions of package strings and strconv the code     *)
(* calls, on sequences of characters.                                      *)
(***************************************************************************)
Digits == {"0", "1", "2", "3", "4", "5", "6", "7", "8", "9"}

DigitVal(c) ==
  CASE c = "0" -> 0 [] c = "1" -> 1 [] c = "2" -> 2 [] c = "3" -> 3
    [] c = "4" -> 4 [] c = "5" -> 5 [] c = "6" -> 6 [] c = "7" -> 7
    [] c = "8" -> 8 [] c = "9" -> 9

HasPrefix(s, p) == Len(s) >= Len(p) /\ SubSeq(s, 1, Len(p)) = p

HasSuffix(s, p) == Len(s) >= Len(p) /\ SubSeq(s, Len(s) - Len(p) + 1, Len(s)) = p

Contains(s, p) == \E i \in 1..(Len(s) - Len(p) + 1) : SubSeq(s, i, i + Len(p) - 1) = p

\* strings.Index(s, c) for a one-character c: 0-based, -1 when absent.
IndexOf(s, c) ==
  IF \E i \in 1..Len(s) : s[i] = c
  THEN (CHOOSE i \in 1..Len(s) : s[i] = c /\ \A j \in 1..(i - 1) : s[j] # c) - 1
  ELSE -1

\* strings.Trim(s, " ") (and strings.TrimSpace on text whose only blank is ' ').
TrimSpaces(s) ==
  IF \A i \in 1..Len(s) : s[i] = " " THEN <<>>
  ELSE LET lo == CHOOSE i \in 1..Len(s) : s[i] # " " /\ \A j \in 1..(i - 1) : s[j] = " "
           hi == CHOOSE i \in 1..Len(s) : s[i] # " " /\ \A j \in (i + 1)..Len(s) : s[j] = " "
       IN SubSeq(s, lo, hi)

\* strings.Split(s, sep) for a non-empty separator.
RECURSIVE Split(_, _)
Split(s, sep) ==
  IF ~Contains(s, sep) THEN <<s>>
  ELSE LET i == CHOOSE k \in 1..(Len(s) - Len(sep) + 1) :
                  /\ SubSeq(s, k, k + Len(sep) - 1) = sep
                  /\ \A j \in 1..(k - 1) : SubSeq(s, j, j + Len(sep) - 1) # sep
       IN <<SubSeq(s, 1, i - 1)>> \o Split(SubSeq(s, i + Len(sep), Len(s)), sep)

RECURSIVE DigitsVal(_)
DigitsVal(s) ==
  IF s = <<>> THEN 0 ELSE 10 * DigitsVal(SubSeq(s, 1, Len(s) - 1)) + DigitVal(s[Len(s)])

\* strconv.Atoi: an optional sign and at least one decimal digit.
Atoi(s) ==
  LET body == IF s # <<>> /\ s[1] \in {"-", "+"} THEN Tail(s) ELSE s
      ok   == body # <<>> /\ \A i \in 1..Len(body) : body[i] \in Digits
  IN IF ~ok THEN [ok |-> FALSE, v |-> 0]
     ELSE [ok |-> TRUE, v |-> IF s[1] = "-" THEN 0 - DigitsVal(body) ELSE DigitsVal(body)]

RECURSIVE NatText(_)
NatText(i) ==
  LET d == <<"0", "1", "2", "3", "4", "5", "6", "7", "8", "9">>[(i % 10) + 1]
  IN IF i < 10 THEN <<d>> ELSE NatText(i \div 10) \o <<d>>

\* strconv.Itoa / fmt %d / fmt %v of an integer.
Itoa(i) == IF i < 0 THEN <<"-">> \o NatText(0 - i) ELSE NatText(i)

(***************************************************************************)
(* Errors.  A Go error is modelled by its message (without the formatted   *)
(* arguments); NoErr is a nil error and Panic a run-time panic, which      *)
(* unwinds through every caller.                                           *)
(***************************************************************************)
NoErr == "nil"

Panic == "panic"

ErrGetFromNullObj == "get attribute from null object"

NotJSON == "object is not json"

NotMap == "object is not map"

NotSlice == "object is not slice"

IsNull == "object is nil"

ErrNoKey == "no match: key not found in object"

ErrIdxRange == "no match: index out of range"

ErrFromRange == "no match: index [from] out of range"

ErrToRange == "no match: index [to] out of range"

ErrEmptyIdx == "cannot index on empty slice"

ErrRangeArgs == "range args length should be 2"

ErrUnsupported == "expression don't support in filter"

Ok(v) == [v |-> v, err |-> NoErr]

Fail(e) == [v |-> Null, err |-> e]

\* A local variable: v is computed once and named by the parameter of F
\* (Go: x := v, followed by the statements F that read x).
With(v, F(_)) == F(v)

(***************************************************************************)
(* Generic accessors.                                                      *)
(***************************************************************************)
\* An optional integer bound of a range (Go: interface{} holding nil or int).
None == [some |-> FALSE, v |-> 0]

Some(i) == [some |-> TRUE, v |-> i]

getByKey(obj, key) ==
  IF Kind(obj) = "nil" THEN Fail(Panic)
  ELSE IF Kind(obj) # "map" THEN Fail(NotMap)
  ELSE IF key \in DOMAIN obj.m THEN Ok(obj.m[key])
  ELSE Fail(ErrNoKey)

\* getByIdx as it would be without the wraparound of a negative index.
getByIdxNoWrap(obj, idx) ==
  IF Kind(obj) = "nil" THEN Fail(Panic)
  ELSE IF Kind(obj) # "slice" THEN Fail(NotSlice)
  ELSE IF idx < 0 \/ idx >= Len(obj.a) THEN Fail(ErrIdxRange)
  ELSE Ok(obj.a[idx + 1])

getByIdx(obj, idx) ==
  IF Kind(obj) = "nil" THEN Fail(Panic)
  ELSE IF Kind(obj) # "slice" THEN Fail(NotSlice)
  ELSE LET length == Len(obj.a) IN
       IF idx >= 0
       THEN IF idx >= length THEN Fail(ErrIdxRange) ELSE Ok(obj.a[idx + 1])
       ELSE LET idx2 == length + idx IN
            IF idx2 < 0 THEN Fail(ErrIdxRange) ELSE Ok(obj.a[idx2 + 1])

RECURSIVE _getByKey(_, _)
\* _getByKey: on a slice it collects the key from every element that has it.
_getByKey(obj, key) ==
  CASE Kind(obj) = "nil" -> Fail(ErrGetFromNullObj)
    [] Kind(obj) = "map" ->
         IF key \in DOMAIN obj.m THEN Ok(obj.m[key]) ELSE Fail(ErrNoKey)
    [] Kind(obj) = "slice" ->
         LET RECURSIVE collect(_)
             collect(i) ==
               IF i > Len(obj.a) THEN <<>>
               ELSE LET r == _getByKey(obj.a[i], key) IN
                    (IF r.err = NoErr THEN <<r.v>> ELSE <<>>) \o collect(i + 1)
         IN Ok(Arr(collect(1)))
    [] OTHER -> Fail(NotMap)

\* getByRange as it would be with the bound to exclusive.
getByRangeExclusive(obj, frm, to) ==
  IF Kind(obj) = "nil" THEN Fail(Panic)
  ELSE IF Kind(obj) # "slice" THEN Fail(NotSlice)
  ELSE LET length == Len(obj.a)
           fv == IF frm.some THEN frm.v ELSE 0
           tv == IF to.some THEN to.v ELSE length - 1
           from2 == IF fv < 0 THEN length + fv ELSE fv
           to2 == IF tv < 0 THEN length + tv ELSE tv
       IN IF from2 < 0 \/ from2 >= length THEN Fail(ErrFromRange)
          ELSE IF to2 < 0 \/ to2 > length THEN Fail(ErrToRange)
          ELSE IF from2 > to2 THEN Fail(Panic)
          ELSE Ok(Arr(SubSeq(obj.a, from2 + 1, to2)))

getByRange(obj, frm, to) ==
  IF Kind(obj) = "nil" THEN Fail(Panic)
  ELSE IF Kind(obj) # "slice" THEN Fail(NotSlice)
  ELSE LET length == Len(obj.a)
           fv == IF frm.some THEN frm.v ELSE 0
           tv == IF to.some THEN to.v ELSE length - 1
           from2 == IF fv < 0 THEN length + fv ELSE fv
           to2 == IF tv < 0 THEN length + tv + 1 ELSE tv + 1
       IN IF from2 < 0 \/ from2 >= length THEN Fail(ErrFromRange)
          ELSE IF to2 < 0 \/ to2 > length THEN Fail(ErrToRange)
          ELSE IF from2 > to2 THEN Fail(Panic)
          ELSE Ok(Arr(SubSeq(obj.a, from2 + 1, to2)))

(***************************************************************************)
(* Tokenizer.                                                              *)
(***************************************************************************)
ErrStart == "should start with '$'"

\* The final flush of parse: strip a leading dot, drop a repeated "*".
parseFlush(fragments, fragment) ==
  IF Len(fragment) = 0 THEN fragments
  ELSE LET f == IF fragment[1] = "." THEN Tail(fragment) ELSE fragment IN
       IF f # <<"*">> THEN Append(fragments, f)
       ELSE IF fragments[Len(fragments)] # <<"*">> THEN Append(fragments, f)
       ELSE fragments

RECURSIVE parseLoop(_, _, _, _)
\* One iteration of parse's loop over the characters of query, from i on.
parseLoop(query, i, fragments, fragment0) ==
  IF i > Len(query) THEN [v |-> parseFlush(fragments, fragment0), err |-> NoErr]
  ELSE
    LET x == query[i]
        fragment == Append(fragment0, x)
    IN
    IF i = 1
    THEN IF fragment = <<"$">> \/ fragment = <<"@">>
         THEN parseLoop(query, i + 1, Append(fragments, fragment), <<>>)
         ELSE [v |-> <<>>, err |-> ErrStart]
    ELSE IF fragment = <<".">> THEN parseLoop(query, i + 1, fragments, fragment)
    ELSE IF fragment = <<".", ".">>
    THEN parseLoop(query, i + 1,
                   IF fragments[Len(fragments)] # <<"*">>
                   THEN Append(fragments, <<"*">>) ELSE fragments,
                   <<".">>)
    ELSE IF Contains(fragment, <<"[">>)
    THEN IF x = "]" /\ ~HasSuffix(fragment, <<"\\", "]">>)
         THEN parseLoop(query, i + 1,
                        Append(fragments,
                               IF fragment[1] = "." THEN Tail(fragment) ELSE fragment),
                        <<>>)
         ELSE parseLoop(query, i + 1, fragments, fragment)
    ELSE IF x = "."
    THEN parseLoop(query, i + 1,
                   Append(fragments,
                          IF fragment[1] = "."
                          THEN SubSeq(fragment, 2, Len(fragment) - 1)
                          ELSE SubSeq(fragment, 1, Len(fragment) - 1)),
                   <<".">>)
    ELSE parseLoop(query, i + 1, fragments, fragment)

\* parse(query): the token list, or an error.
parse(query) == parseLoop(query, 1, <<>>, <<>>)

(***************************************************************************)
(* Operation parser.                                                       *)
(***************************************************************************)
ErrTail == "len(tail) should >=3"

ErrOneRange == "only support one range(from, to)"

ErrAtoi == "strconv.Atoi: invalid syntax"

ErrPathStart == "path should start with '$' or '@'"

\* Operation arguments (Go: interface{} holding nil, []int, [2]interface{} or string).
NoArgs == [kind |-> "nil", ints |-> <<>>, frm |-> None, to |-> None, str |-> <<>>]

IntsArgs(is) == [kind |-> "ints", ints |-> is, frm |-> None, to |-> None, str |-> <<>>]

RangeArgs(f, t) == [kind |-> "range", ints |-> <<>>, frm |-> f, to |-> t, str |-> <<>>]

StrArgs(s) == [kind |-> "str", ints |-> <<>>, frm |-> None, to |-> None, str |-> s]

Frag(op, key, args, err) == [op |-> op, key |-> key, args |-> args, err |-> err]

parseFragment(token) ==
  IF token = <<"$">> THEN Frag("root", <<"$">>, NoArgs, NoErr)
  ELSE IF token = <<"*">> THEN Frag("scan", <<"*">>, NoArgs, NoErr)
  ELSE
  LET bracketIdx == IndexOf(token, "[") IN
  IF bracketIdx < 0 THEN Frag("key", token, NoArgs, NoErr)
  ELSE
  LET key   == SubSeq(token, 1, bracketIdx)
      tail0 == SubSeq(token, bracketIdx + 1, Len(token))
  IN
  IF Len(tail0) < 3 THEN Frag("", key, NoArgs, ErrTail)
  ELSE
  LET tail == SubSeq(tail0, 2, Len(tail0) - 1) IN
  IF Contains(tail, <<"?">>)
  THEN IF HasPrefix(tail, <<"?", "(">>) /\ HasSuffix(tail, <<")">>)
       THEN Frag("filter", key, StrArgs(TrimSpaces(SubSeq(tail, 3, Len(tail) - 1))), NoErr)
       ELSE Frag("filter", key, NoArgs, NoErr)
  ELSE IF Contains(tail, <<":">>)
  THEN LET tails == Split(tail, <<":">>) IN
       IF Len(tails) # 2 THEN Frag("range", key, NoArgs, ErrOneRange)
       ELSE LET f    == Atoi(TrimSpaces(tails[1]))
                t    == Atoi(TrimSpaces(tails[2]))
                \* err after the from side, then overwritten by the to side
                err1 == IF f.ok \/ TrimSpaces(tails[1]) = <<>> THEN NoErr ELSE ErrAtoi
                err2 == IF t.ok THEN NoErr
                        ELSE IF TrimSpaces(tails[2]) = <<>> THEN NoErr ELSE ErrAtoi
            IN Frag("range", key,
                    RangeArgs(IF f.ok THEN Some(f.v) ELSE None,
                              IF t.ok THEN Some(t.v) ELSE None),
                    err2)
  ELSE IF tail = <<"*">> THEN Frag("range", key, RangeArgs(None, None), NoErr)
  ELSE LET pieces == Split(tail, <<",">>)
           nums   == [i \in 1..Len(pieces) |-> Atoi(TrimSpaces(pieces[i]))]
       IN IF \E i \in 1..Len(pieces) : ~nums[i].ok THEN Frag("", <<>>, NoArgs, ErrAtoi)
          ELSE Frag("idx", key, IntsArgs([i \in 1..Len(pieces) |-> nums[i].v]), NoErr)

(***************************************************************************)
(* Compile.                                                                *)
(***************************************************************************)
\* A Compiled object: the path text, the operations and the step cursor.
Compiled(path, operations, step) == [path |-> path, operations |-> operations, step |-> step]

Operation(f) == [op |-> f.op, key |-> f.key, args |-> f.args]

\* Compile(path): [c, err]; err is Panic when fragments[0] is read of an empty list.
Compile(path) ==
  With(parse(path), LAMBDA p :
    IF p.err # NoErr THEN [c |-> Compiled(path, <<>>, 0), err |-> p.err]
    ELSE IF Len(p.v) = 0 THEN [c |-> Compiled(path, <<>>, 0), err |-> Panic]
    ELSE IF p.v[1] # <<"@">> /\ p.v[1] # <<"$">>
    THEN [c |-> Compiled(path, <<>>, 0), err |-> ErrPathStart]
    ELSE With([i \in 1..(Len(p.v) - 1) |-> parseFragment(p.v[i + 1])], LAMBDA fs :
      IF \E i \in 1..Len(fs) : fs[i].err # NoErr
      THEN [c |-> Compiled(path, <<>>, 0),
            err |-> fs[CHOOSE i \in 1..Len(fs) :
                         fs[i].err # NoErr /\ \A j \in 1..(i - 1) : fs[j].err = NoErr].err]
      ELSE [c |-> Compiled(path, [i \in 1..Len(fs) |-> Operation(fs[i])], 0),
            err |-> NoErr]))

(***************************************************************************)
(* Filter grammar.                                                         *)
(***************************************************************************)
ErrInvalidChar == "invalid char"

FilterExpression(lp, op, rp) == [lp |-> lp, op |-> op, rp |-> rp]

\* The scanner state of parseFilter after assigning tmp to the field of the stage.
putField(st) ==
  CASE st.stage = 0 -> [st EXCEPT !.lp = st.tmp, !.tmp = <<>>]
    [] st.stage = 1 -> [st EXCEPT !.op = st.tmp, !.tmp = <<>>]
    [] st.stage = 2 -> [st EXCEPT !.rp = st.tmp, !.tmp = <<>>]
    [] OTHER        -> [st EXCEPT !.tmp = <<>>]

RECURSIVE scanConjunct(_, _, _)
\* The character loop of parseFilter over one conjunct, from i on.
scanConjunct(sub, i, st) ==
  IF i > Len(sub) THEN st
  ELSE LET ch == sub[i] IN
    IF ch = "'"
    THEN IF ~st.strEmbrace
         THEN scanConjunct(sub, i + 1, [st EXCEPT !.strEmbrace = TRUE])
         ELSE scanConjunct(sub, i + 1, putField(st))
    ELSE IF ch = " "
    THEN IF st.strEmbrace
         THEN scanConjunct(sub, i + 1, [st EXCEPT !.tmp = Append(st.tmp, ch)])
         ELSE LET st2 == [putField(st) EXCEPT !.stage = st.stage + 1] IN
              IF st2.stage > 2 THEN [st2 EXCEPT !.err = ErrInvalidChar]
              ELSE scanConjunct(sub, i + 1, st2)
    ELSE scanConjunct(sub, i + 1, [st EXCEPT !.tmp = Append(st.tmp, ch)])

\* One conjunct of a filter: [lp, op, rp, err].
parseConjunct(sub0) ==
  LET sub == TrimSpaces(sub0)
      st0 == [tmp |-> <<>>, lp |-> <<>>, op |-> <<>>, rp |-> <<>>, stage |-> 0,
              strEmbrace |-> FALSE, err |-> NoErr]
      st  == scanConjunct(sub, 1, st0)
  IN IF st.err # NoErr \/ st.tmp = <<>> THEN st
     ELSE CASE st.stage = 0 -> [st EXCEPT !.lp = st.tmp, !.op = <<"e", "x", "i", "s", "t", "s">>,
                                          !.tmp = <<>>]
            [] st.stage = 1 -> [st EXCEPT !.op = st.tmp, !.tmp = <<>>]
            [] OTHER        -> [st EXCEPT !.rp = st.tmp, !.tmp = <<>>]

\* parseFilter(filter): [v: the expressions, err].
parseFilter(filter) ==
  LET subs == Split(filter, <<"&", "&">>)
      ps   == [i \in 1..Len(subs) |-> parseConjunct(subs[i])]
  IN IF \E i \in 1..Len(ps) : ps[i].err # NoErr
     THEN [v |-> <<>>, err |-> ErrInvalidChar]
     ELSE [v |-> [i \in 1..Len(ps) |-> FilterExpression(ps[i].lp, ps[i].op, ps[i].rp)],
           err |-> NoErr]

(***************************************************************************)
(* Comparator.                                                             *)
(***************************************************************************)
ErrOp == "op should only be <, <=, ==, >= and >"

ErrEval == "types.Eval: invalid expression"

\* The printable ASCII characters in code order, from ' ' (32) to '~' (126),
\* without the backquote.
Ascii ==
  <<" ", "!", "\"", "#", "$", "%", "&", "'", "(", ")", "*", "+", ",", "-", ".", "/",
    "0", "1", "2", "3", "4", "5", "6", "7", "8", "9", ":", ";", "<", "=", ">", "?",
    "@", "A", "B", "C", "D", "E", "F", "G", "H", "I", "J", "K", "L", "M", "N", "O",
    "P", "Q", "R", "S", "T", "U", "V", "W", "X", "Y", "Z", "[", "\\", "]", "^", "_",
    "a", "b", "c", "d", "e", "f", "g", "h", "i", "j", "k", "l", "m", "n", "o",
    "p", "q", "r", "s", "t", "u", "v", "w", "x", "y", "z", "{", "|", "}", "~">>

\* The byte of a character: the backquote (96), which the list leaves out,
\* lies between '_' (95) and 'a' (97).
Code(ch) ==
  LET i == CHOOSE j \in 1..Len(Ascii) : Ascii[j] = ch IN IF i <= 64 THEN 31 + i ELSE 32 + i

\* Go's string ordering (bytewise lexicographic): -1, 0 or 1.
RECURSIVE StrCmp(_, _)
StrCmp(x, y) ==
  IF x = <<>> /\ y = <<>> THEN 0
  ELSE IF x = <<>> THEN -1
  ELSE IF y = <<>> THEN 1
  ELSE IF Code(x[1]) < Code(y[1]) THEN -1
  ELSE IF Code(x[1]) > Code(y[1]) THEN 1
  ELSE StrCmp(Tail(x), Tail(y))

RECURSIVE Pow10(_)
Pow10(k) == IF k = 0 THEN 1 ELSE 10 * Pow10(k - 1)

RECURSIVE OctalVal(_)
OctalVal(s) ==
  IF s = <<>> THEN 0 ELSE 8 * OctalVal(SubSeq(s, 1, Len(s) - 1)) + DigitVal(s[Len(s)])

\* A decimal numeral "[+-]ddd[.ddd]" as strconv.ParseFloat accepts it and as
\* types.Eval reads it: ok, and the value mant / 10^scale; bad when Go's
\* constant syntax rejects it (an integer literal with a leading 0 is octal).
NumLit(s) ==
  LET body  == IF s # <<>> /\ s[1] \in {"-", "+"} THEN Tail(s) ELSE s
      neg   == s # <<>> /\ s[1] = "-"
      dot   == IndexOf(body, ".")
      ip    == IF dot < 0 THEN body ELSE SubSeq(body, 1, dot)
      fp    == IF dot < 0 THEN <<>> ELSE SubSeq(body, dot + 2, Len(body))
      ok    == /\ \A i \in 1..Len(ip) : ip[i] \in Digits
               /\ \A i \in 1..Len(fp) : fp[i] \in Digits
               /\ Len(ip) + Len(fp) > 0
      octal == dot < 0 /\ Len(ip) > 1 /\ ip[1] = "0"
      bad   == octal /\ \E i \in 1..Len(ip) : ip[i] \in {"8", "9"}
      mag   == IF octal THEN OctalVal(ip) ELSE DigitsVal(ip \o fp)
  IN IF ~ok THEN [ok |-> FALSE, bad |-> FALSE, mant |-> 0, scale |-> 0]
     ELSE [ok |-> TRUE, bad |-> bad, mant |-> IF neg THEN 0 - mag ELSE mag,
           scale |-> Len(fp)]

isNumber(o) ==
  CASE o.t = "num" -> TRUE
    [] o.t = "str" -> NumLit(o.s).ok
    [] OTHER       -> FALSE

RECURSIVE Format(_)
\* fmt.Sprintf("%v", o).  A map prints its keys in sorted order.
Format(o) ==
  CASE o.t = "null" -> <<"<", "n", "i", "l", ">">>
    [] o.t = "num"  -> Itoa(o.n)
    [] o.t = "str"  -> o.s
    [] o.t = "bool" -> IF o.n = 1 THEN <<"t", "r", "u", "e">> ELSE <<"f", "a", "l", "s", "e">>
    [] o.t = "arr"  ->
         LET RECURSIVE items(_)
             items(i) ==
               IF i > Len(o.a) THEN <<>>
               ELSE (IF i > 1 THEN <<" ">> ELSE <<>>) \o Format(o.a[i]) \o items(i + 1)
         IN <<"[">> \o items(1) \o <<"]">>
    [] o.t = "map"  ->
         LET RECURSIVE entries(_, _)
             entries(keys, first) ==
               IF keys = {} THEN <<>>
               ELSE LET k == CHOOSE x \in keys : \A y \in keys : StrCmp(x, y) <= 0 IN
                    (IF first THEN <<>> ELSE <<" ">>) \o k \o <<":">> \o Format(o.m[k])
                      \o entries(keys \ {k}, FALSE)
         IN <<"m", "a", "p", "[">> \o entries(DOMAIN o.m, TRUE) \o <<"]">>

\* The truth of "x op y" given the sign of x - y.
Holds(sign, op) ==
  CASE op = <<"<">>      -> sign < 0
    [] op = <<"<", "=">> -> sign <= 0
    [] op = <<"=", "=">> -> sign = 0
    [] op = <<">", "=">> -> sign >= 0
    [] op = <<">">>      -> sign > 0

\* compare(obj1, obj2, op): [v: BOOLEAN, err].
compare(obj1, obj2, op) ==
  IF op \notin {<<"<">>, <<"<", "=">>, <<"=", "=">>, <<">", "=">>, <<">">>}
  THEN [v |-> FALSE, err |-> ErrOp]
  ELSE IF isNumber(obj1) /\ isNumber(obj2)
  THEN LET x == NumLit(Format(obj1))
           y == NumLit(Format(obj2))
           l == x.mant * Pow10(y.scale)
           r == y.mant * Pow10(x.scale)
       IN IF x.bad \/ y.bad THEN [v |-> FALSE, err |-> ErrEval]
          ELSE [v |-> Holds(IF l < r THEN -1 ELSE IF l > r THEN 1 ELSE 0, op), err |-> NoErr]
  ELSE LET x == Format(obj1)
           y == Format(obj2)
       IN IF \E i \in 1..Len(x \o y) : (x \o y)[i] \in {"\"", "\\"}
          THEN [v |-> FALSE, err |-> ErrEval]
          ELSE [v |-> Holds(StrCmp(x, y), op), err |-> NoErr]

(***************************************************************************)
(* Filter evaluation.                                                      *)
(***************************************************************************)
ErrEmptyRule == "empty rule"

ErrRuleSyntax == "invalid syntax. should be in /pattern/ form"

ErrNotString == "only string can match with regular expression"

ErrMultiIdx == "don't support multiple index in filter"

ErrRegexp == "error parsing regexp"

\* The characters with a meaning in a regular expression.
RegexpMeta == {"\\", ".", "+", "*", "?", "(", ")", "|", "[", "]", "{", "}", "^", "$"}

\* compileRegexp(rule): [pat, err].  The model keeps the patterns regexp.Compile
\* takes literally (no metacharacter); any other pattern counts as malformed.
compileRegexp(rule) ==
  IF Len(rule) <= 2 THEN [pat |-> <<>>, err |-> ErrEmptyRule]
  ELSE IF rule[1] # "/" \/ rule[Len(rule)] # "/" THEN [pat |-> <<>>, err |-> ErrRuleSyntax]
  ELSE LET pat == SubSeq(rule, 2, Len(rule) - 1) IN
       IF \E i \in 1..Len(pat) : pat[i] \in RegexpMeta
       THEN [pat |-> <<>>, err |-> ErrRegexp]
       ELSE [pat |-> pat, err |-> NoErr]

\* pat.MatchString(v) for a literal pattern: v contains it.
MatchString(pat, v) == Contains(v, pat)

ErrFront == "$ or @ should in front of path"

RECURSIVE explicitSteps(_, _, _)
\* The loop of filterGetFromExplicitPath over the steps, from i on.
explicitSteps(steps, i, xobj) ==
  IF i > Len(steps) THEN Ok(xobj)
  ELSE With(parseFragment(steps[i]), LAMBDA f :
    IF f.op \notin {"key", "idx"} THEN Fail(ErrUnsupported)
    ELSE IF f.op = "idx" /\ Len(f.args.ints) # 1 THEN Fail(ErrMultiIdx)
    ELSE With(_getByKey(xobj, f.key), LAMBDA r :
      IF r.err # NoErr THEN Fail(r.err)
      ELSE IF f.op = "key" THEN explicitSteps(steps, i + 1, r.v)
      ELSE With(getByIdx(r.v, f.args.ints[1]), LAMBDA e :
        IF e.err # NoErr THEN Fail(e.err) ELSE explicitSteps(steps, i + 1, e.v))))

filterGetFromExplicitPath(obj, path) ==
  With(parse(path), LAMBDA p :
    IF p.err # NoErr THEN Fail(p.err)
    ELSE IF Len(p.v) = 0 THEN Fail(Panic)
    ELSE IF p.v[1] # <<"@">> /\ p.v[1] # <<"$">> THEN Fail(ErrFront)
    ELSE explicitSteps(Tail(p.v), 1, obj))

\* getByPath: an operand "@.…" is read from obj, "$.…" from root, any other
\* text is the string itself.
getByPath(obj, root, path) ==
  IF HasPrefix(path, <<"@", ".">>) \/ HasPrefix(path, <<"$", ".">>)
  THEN filterGetFromExplicitPath(IF HasPrefix(path, <<"@", ".">>) THEN obj ELSE root, path)
  ELSE Ok(Str(path))

\* evalRegexp without the type switch: anything but a matching string is "no match".
evalRegexpNoTypeSwitch(obj, root, lp, pat) ==
  With(getByPath(obj, root, lp), LAMBDA l :
    IF l.err # NoErr THEN [v |-> FALSE, err |-> l.err]
    ELSE [v |-> l.v.t = "str" /\ MatchString(pat, l.v.s), err |-> NoErr])

evalRegexp(obj, root, lp, pat) ==
  With(getByPath(obj, root, lp), LAMBDA l :
    IF l.err # NoErr THEN [v |-> FALSE, err |-> l.err]
    ELSE IF l.v.t = "str" THEN [v |-> MatchString(pat, l.v.s), err |-> NoErr]
    ELSE [v |-> FALSE, err |-> ErrNotString])

\* evalFilter(obj, root, lp, op, rp): [v: BOOLEAN, err].
evalFilter(obj, root, lp, op, rp) ==
  With(getByPath(obj, root, lp), LAMBDA left :
    IF left.err # NoErr THEN [v |-> FALSE, err |-> left.err]
    ELSE IF op = <<"e", "x", "i", "s", "t", "s">> THEN [v |-> left.v # Null, err |-> NoErr]
    ELSE IF op = <<"=", "~">>
    THEN With(compileRegexp(rp), LAMBDA reg :
           IF reg.err # NoErr THEN [v |-> FALSE, err |-> reg.err]
           ELSE evalRegexp(obj, root, lp, reg.pat))
    ELSE With(getByPath(obj, root, rp), LAMBDA right :
           IF right.err # NoErr THEN [v |-> FALSE, err |-> right.err]
           ELSE compare(left.v, right.v, op)))

ErrFilterType == "don't support filter on this type"

\* The values of a map in the order getFiltered visits them.  Go leaves the
\* order of MapKeys open; the model fixes the order of the sorted keys and
\* filters only maps of at most one value, where the order cannot show.
MapValues(m) ==
  LET RECURSIVE vals(_)
      vals(keys) ==
        IF keys = {} THEN <<>>
        ELSE LET k == CHOOSE x \in keys : \A y \in keys : StrCmp(x, y) <= 0 IN
             <<m[k]>> \o vals(keys \ {k})
  IN vals(DOMAIN m)

\* Whether every conjunct holds of tmp, evaluated left to right up to the first
\* that does not: [v: BOOLEAN, err], err being Panic or NoErr (evalFilter's
\* errors are dropped: the conjunct counts as false).
RECURSIVE matchAll(_, _, _, _)
matchAll(tmp, root, expressions, i) ==
  IF i > Len(expressions) THEN [v |-> TRUE, err |-> NoErr]
  ELSE With(evalFilter(tmp, root, expressions[i].lp, expressions[i].op, expressions[i].rp),
            LAMBDA r :
              IF r.err = Panic THEN [v |-> FALSE, err |-> Panic]
              ELSE IF ~r.v THEN [v |-> FALSE, err |-> NoErr]
              ELSE matchAll(tmp, root, expressions, i + 1))

RECURSIVE filterItems(_, _, _, _)
\* The loop of getFiltered over the items, from i on: the matching items.
filterItems(items, root, expressions, i) ==
  IF i > Len(items) THEN [v |-> <<>>, err |-> NoErr]
  ELSE With(matchAll(items[i], root, expressions, 1), LAMBDA r :
    IF r.err = Panic THEN [v |-> <<>>, err |-> Panic]
    ELSE With(filterItems(items, root, expressions, i + 1), LAMBDA rest :
      IF rest.err = Panic THEN rest
      ELSE [v |-> (IF r.v THEN <<items[i]>> ELSE <<>>) \o rest.v, err |-> NoErr]))

\* getFiltered(obj, root, filter): [v: an array value, err].
getFiltered(obj, root, filter) ==
  With(parseFilter(filter), LAMBDA p :
    IF p.err # NoErr \/ Len(p.v) = 0 THEN [v |-> Arr(<<>>), err |-> p.err]
    ELSE IF Kind(obj) = "nil" THEN Fail(Panic)
    ELSE IF Kind(obj) \notin {"slice", "map"} THEN Fail(ErrFilterType)
    ELSE With(filterItems(IF Kind(obj) = "slice" THEN obj.a ELSE MapValues(obj.m),
                          root, p.v, 1),
              LAMBDA r : IF r.err # NoErr THEN Fail(r.err) ELSE Ok(Arr(r.v))))

(***************************************************************************)
(* Lookup.  The step cursor is a field of the Compiled object, so every    *)
(* operator takes the cursor it finds and returns the cursor it leaves.    *)
(***************************************************************************)
\* The outcome of Lookup: the three results and the cursor left in c.step.
LookupResult(res, isArray, err, step) ==
  [res |-> res, isArray |-> isArray, err |-> err, step |-> step]

OpResult(obj, isArray, err) == [obj |-> obj, isArray |-> isArray, err |-> err]

RECURSIVE idxItems(_, _, _)
\* The loop of Lookup over a list of two or more indices, from i on.
idxItems(obj, idxs, i) ==
  IF i > Len(idxs) THEN [v |-> <<>>, err |-> NoErr]
  ELSE LET item == getByIdx(obj, idxs[i]) IN
       IF item.err # NoErr THEN [v |-> <<>>, err |-> item.err]
       ELSE LET rest == idxItems(obj, idxs, i + 1) IN
            IF rest.err # NoErr THEN rest
            ELSE [v |-> <<item.v>> \o rest.v, err |-> NoErr]

\* The switch of Lookup on operation.op, applied to a map obj.
lookupOp(operation, obj0) ==
  CASE operation.op = "key" ->
         LET r == getByKey(obj0, operation.key) IN OpResult(r.v, FALSE, r.err)
    [] operation.op = "idx" ->
         LET k   == IF Len(operation.key) > 0 THEN getByKey(obj0, operation.key) ELSE Ok(obj0)
             idxs == operation.args.ints
         IN IF k.err # NoErr THEN OpResult(Null, FALSE, k.err)
            ELSE IF operation.args.kind # "ints" THEN OpResult(Null, FALSE, Panic)
            ELSE IF Len(idxs) > 1
            THEN LET r == idxItems(k.v, idxs, 1) IN
                 IF r.err # NoErr THEN OpResult(Null, FALSE, r.err)
                 ELSE OpResult(Arr(r.v), TRUE, NoErr)
            ELSE IF Len(idxs) = 1
            THEN LET r == getByIdx(k.v, idxs[1]) IN OpResult(r.v, FALSE, r.err)
            ELSE OpResult(Null, FALSE, ErrEmptyIdx)
    [] operation.op = "range" ->
         LET k == IF Len(operation.key) > 0 THEN getByKey(obj0, operation.key) ELSE Ok(obj0) IN
         IF k.err # NoErr THEN OpResult(Null, FALSE, k.err)
         ELSE IF operation.args.kind # "range" THEN OpResult(Null, FALSE, ErrRangeArgs)
         ELSE LET r == getByRange(k.v, operation.args.frm, operation.args.to) IN
              IF r.err # NoErr THEN OpResult(Null, FALSE, r.err)
              ELSE OpResult(r.v, TRUE, NoErr)
    [] operation.op = "filter" ->
         LET k == getByKey(obj0, operation.key) IN
         IF k.err # NoErr THEN OpResult(Null, FALSE, k.err)
         ELSE IF operation.args.kind # "str" THEN OpResult(Null, FALSE, Panic)
         ELSE With(getFiltered(k.v, k.v, operation.args.str), LAMBDA r :
                IF r.err # NoErr THEN OpResult(Null, FALSE, r.err)
                ELSE OpResult(r.v, TRUE, NoErr))
    [] OTHER -> OpResult(Null, FALSE, ErrUnsupported)

\* c.next(): the cursor after the call, and whether next returned nil.
next(operations, step) ==
  IF step = Len(operations) - 1 THEN [isNil |-> TRUE, step |-> step]
  ELSE [isNil |-> FALSE, step |-> step + 1]

RECURSIVE Lookup(_, _, _)
RECURSIVE lookupSlice(_, _, _, _, _, _)

RECURSIVE lookupSliceAnySlice(_, _, _, _, _, _)
\* lookupSlice as it would be if it spliced every slice, whatever isArray says.
lookupSliceAnySlice(operations, step, items, i, arr, err) ==
  IF i > Len(items) THEN LookupResult(Arr(arr), TRUE, err, step)
  ELSE With(Lookup(operations, step, items[i]), LAMBDA r :
    IF r.err = Panic THEN r
    ELSE lookupSliceAnySlice(operations, r.step, items, i + 1,
                             IF r.err # NoErr THEN arr
                             ELSE IF Kind(r.res) = "slice" THEN arr \o r.res.a
                             ELSE Append(arr, r.res),
                             r.err))

\* The slice case of Lookup: the loop over the items, from i on, with the
\* results collected so far and the error of the latest item.
lookupSlice(operations, step, items, i, arr, err) ==
  IF i > Len(items) THEN LookupResult(Arr(arr), TRUE, err, step)
  ELSE With(Lookup(operations, step, items[i]), LAMBDA r :
    IF r.err = Panic THEN r
    ELSE lookupSlice(operations, r.step, items, i + 1,
                     IF r.err # NoErr THEN arr
                     ELSE IF r.isArray /\ Kind(r.res) = "slice" THEN arr \o r.res.a
                     ELSE Append(arr, r.res),
                     r.err))

\* c.Lookup(obj) with c.operations = operations and c.step = step on entry.
Lookup(operations, step, obj) ==
  IF obj = Null THEN LookupResult(Null, FALSE, NoErr, step)
  ELSE IF Kind(obj) = "slice" THEN lookupSlice(operations, step, obj.a, 1, <<>>, NoErr)
  ELSE IF Kind(obj) # "map" THEN LookupResult(Null, FALSE, NotJSON, step)
  ELSE IF step < 0 \/ step >= Len(operations) THEN LookupResult(Null, FALSE, Panic, step)
  ELSE With(lookupOp(operations[step + 1], obj), LAMBDA o :
    IF o.err # NoErr THEN LookupResult(Null, o.isArray, o.err, step)
    ELSE IF next(operations, step).isNil THEN LookupResult(o.obj, o.isArray, NoErr, step)
    ELSE Lookup(operations, next(operations, step).step, o.obj))

\* Get(obj, path): Compile, then Lookup on the fresh Compiled object.
Get(obj, path) ==
  With(Compile(path), LAMBDA cc :
    IF cc.err # NoErr THEN LookupResult(Null, FALSE, cc.err, 0)
    ELSE With(Lookup(cc.c.operations, cc.c.step, obj), LAMBDA r :
      IF r.err # NoErr THEN LookupResult(Null, FALSE, r.err, r.step) ELSE r))

(***************************************************************************)
(* Canonicalizer: decompile and TranslatePath.                             *)
(***************************************************************************)
\* Join the decimal forms of idxs with commas (strings.Join(ss, ",")).
RECURSIVE joinInts(_, _)
joinInts(idxs, i) ==
  IF i > Len(idxs) THEN <<>>
  ELSE (IF i > 1 THEN <<",">> ELSE <<>>) \o Itoa(idxs[i]) \o joinInts(idxs, i + 1)

RECURSIVE getFilterExpr(_, _)
\* getFilterExpr(obj, key): [v: the filter clause or the empty text, err],
\* err being Panic when the kind of a nil obj is read.
getFilterExpr(obj, key) ==
  LET has(k) == k \in DOMAIN obj.m
      none   == [v |-> <<>>, err |-> NoErr]
      clause(prefix, val, suffix) == [v |-> prefix \o Format(val) \o suffix, err |-> NoErr]
  IN
  IF Kind(obj) = "nil" THEN [v |-> <<>>, err |-> Panic]
  ELSE IF Kind(obj) # "map" THEN none
  ELSE CASE key = <<"t", "i", "p", "s">> ->
              IF ~has(<<"t", "i", "p", "L", "e", "v", "e", "l">>) THEN none
              ELSE clause(<<"@", ".", "t", "i", "p", "L", "e", "v", "e", "l", " ", "=", "=", " ", "'">>,
                          obj.m[<<"t", "i", "p", "L", "e", "v", "e", "l">>], <<"'">>)
         [] key = <<"p", "a", "r", "a", "m", "e", "t", "e", "r", "s">> ->
              IF ~has(<<"i", "n">>) \/ ~has(<<"s", "c", "h", "e", "m", "a">>) THEN none
              ELSE LET expr == getFilterExpr(obj.m[<<"s", "c", "h", "e", "m", "a">>],
                                             <<"s", "c", "h", "e", "m", "a">>)
                   IN IF expr.err # NoErr \/ expr.v = <<>> THEN expr
                      ELSE [v |-> <<"@", ".", "i", "n", " ", "=", "=", " ", "'">>
                                    \o Format(obj.m[<<"i", "n">>])
                                    \o <<"'", " ", "&", "&", " ", "'">> \o expr.v \o <<"'">>,
                            err |-> NoErr]
         [] key = <<"s", "c", "h", "e", "m", "a">> ->
              IF ~has(<<"n", "a", "m", "e">>) THEN none
              ELSE clause(<<"@", ".", "s", "c", "h", "e", "m", "a", ".", "n", "a", "m", "e",
                            " ", "=", "=", " ", "'">>,
                          obj.m[<<"n", "a", "m", "e">>], <<"'">>)
         [] key \in {<<"p", "r", "o", "p", "e", "r", "t", "i", "e", "s">>,
                     <<"o", "p", "t", "i", "o", "n", "s">>} ->
              IF ~has(<<"n", "a", "m", "e">>) THEN none
              ELSE clause(<<"@", ".", "n", "a", "m", "e", " ", "=", "=", " ", "'">>,
                          obj.m[<<"n", "a", "m", "e">>], <<"'">>)
         [] key = <<"e", "r", "r", "o", "r", "C", "o", "d", "e", "M", "a", "p", "p", "i", "n", "g">> ->
              IF ~has(<<"e", "r", "r", "o", "r", "C", "o", "d", "e">>) THEN none
              ELSE clause(<<"@", ".", "e", "r", "r", "o", "r", "C", "o", "d", "e", " ", "=", "=", " ">>,
                          obj.m[<<"e", "r", "r", "o", "r", "C", "o", "d", "e">>], <<>>)
         [] OTHER -> none

\* The outcome of one step of decompile: the object, the path text, isArray, err.
DecOp(obj, path, isArray, err) == [obj |-> obj, path |-> path, isArray |-> isArray, err |-> err]

\* The switch of decompile on operation.op, applied to a map obj.
decompileOp(operation, obj0) ==
  LET dotKey == <<".">> \o operation.key IN
  CASE operation.op = "key" ->
         LET r == getByKey(obj0, operation.key) IN
         IF r.err # NoErr THEN DecOp(Null, <<>>, FALSE, r.err)
         ELSE DecOp(r.v, dotKey, FALSE, NoErr)
    [] operation.op = "idx" ->
         LET k    == IF Len(operation.key) > 0 THEN getByKey(obj0, operation.key) ELSE Ok(obj0)
             idxs == operation.args.ints
         IN IF k.err # NoErr THEN DecOp(Null, <<>>, FALSE, k.err)
            ELSE IF operation.args.kind # "ints" THEN DecOp(Null, <<>>, FALSE, Panic)
            ELSE IF Len(idxs) > 1
            THEN LET r == idxItems(k.v, idxs, 1) IN
                 IF r.err # NoErr THEN DecOp(Null, <<>>, FALSE, r.err)
                 ELSE DecOp(Arr(r.v), dotKey \o <<"[">> \o joinInts(idxs, 1) \o <<"]">>,
                            TRUE, NoErr)
            ELSE IF Len(idxs) = 1
            THEN LET r == getByIdx(k.v, idxs[1]) IN
                 IF r.err # NoErr THEN DecOp(Null, <<>>, FALSE, r.err)
                 ELSE LET expr == getFilterExpr(r.v, operation.key) IN
                      IF expr.err # NoErr THEN DecOp(Null, <<>>, FALSE, expr.err)
                      ELSE IF expr.v # <<>>
                      THEN DecOp(r.v, dotKey \o <<"[", "?", "(">> \o expr.v \o <<")", "]">>,
                                 FALSE, NoErr)
                      ELSE DecOp(r.v, dotKey \o <<"[">> \o Itoa(idxs[1]) \o <<"]">>,
                                 FALSE, NoErr)
            ELSE DecOp(Null, <<>>, FALSE, ErrEmptyIdx)
    [] operation.op = "range" ->
         LET k == IF Len(operation.key) > 0 THEN getByKey(obj0, operation.key) ELSE Ok(obj0) IN
         IF k.err # NoErr THEN DecOp(Null, <<>>, FALSE, k.err)
         ELSE IF operation.args.kind # "range" THEN DecOp(Null, <<>>, FALSE, ErrRangeArgs)
         ELSE LET r    == getByRange(k.v, operation.args.frm, operation.args.to)
                  from == IF operation.args.frm.some THEN Itoa(operation.args.frm.v) ELSE <<>>
                  to   == IF operation.args.to.some THEN Itoa(operation.args.to.v) ELSE <<>>
              IN IF r.err # NoErr THEN DecOp(Null, <<>>, FALSE, r.err)
                 ELSE IF from = <<>> /\ to = <<>>
                 THEN DecOp(r.v, dotKey \o <<"[", "*", "]">>, TRUE, NoErr)
                 ELSE DecOp(r.v, dotKey \o <<"[">> \o from \o <<":">> \o to \o <<"]">>,
                            TRUE, NoErr)
    [] operation.op = "filter" ->
         LET k == getByKey(obj0, operation.key) IN
         IF k.err # NoErr THEN DecOp(Null, <<>>, FALSE, k.err)
         ELSE IF operation.args.kind # "str" THEN DecOp(Null, <<>>, FALSE, Panic)
         ELSE With(getFiltered(k.v, k.v, operation.args.str), LAMBDA r :
                IF r.err # NoErr THEN DecOp(Null, <<>>, FALSE, r.err)
                ELSE DecOp(r.v, dotKey \o <<"[", "?", "(">> \o operation.args.str \o <<")", "]">>,
                           TRUE, NoErr))
    [] OTHER -> DecOp(Null, <<>>, FALSE, ErrUnsupported)

\* The outcome of decompile: the three results and the cursor left in c.step.
DecResult(path, isArray, err, step) ==
  [path |-> path, isArray |-> isArray, err |-> err, step |-> step]

RECURSIVE decompile(_, _, _)
RECURSIVE decompileSlice(_, _, _, _, _)

\* The slice case of decompile: the loop over the items, from i on; last is
\* the outcome of the latest item, which the loop returns when it ends.
decompileSlice(operations, step, items, i, last) ==
  IF i > Len(items) THEN DecResult(last.path, TRUE, last.err, step)
  ELSE With(decompile(operations, step, items[i]), LAMBDA r :
    IF r.err = Panic THEN r
    ELSE decompileSlice(operations, r.step, items, i + 1, r))

\* c.decompile(obj) with c.operations = operations and c.step = step on entry.
decompile(operations, step, obj) ==
  IF Kind(obj) = "nil" THEN DecResult(<<>>, FALSE, IsNull, step)
  ELSE IF Kind(obj) = "slice"
  THEN decompileSlice(operations, step, obj.a, 1, DecResult(<<>>, FALSE, NoErr, step))
  ELSE IF Kind(obj) # "map" THEN DecResult(<<>>, FALSE, NotJSON, step)
  ELSE IF step < 0 \/ step >= Len(operations) THEN DecResult(<<>>, FALSE, Panic, step)
  ELSE With(decompileOp(operations[step + 1], obj), LAMBDA o :
    IF o.err # NoErr THEN DecResult(o.path, o.isArray, o.err, step)
    ELSE IF next(operations, step).isNil THEN DecResult(o.path, o.isArray, NoErr, step)
    ELSE With(decompile(operations, next(operations, step).step, o.obj), LAMBDA r :
      IF r.err = Panic THEN r
      ELSE DecResult(o.path \o r.path, r.isArray, r.err, r.step)))

\* TranslatePath(obj, path): [path, err, step], step being the cursor that
\* decompile leaves in the Compiled object built for the call.
TranslatePath(obj, path) ==
  With(Compile(path), LAMBDA cc :
    IF cc.err # NoErr THEN [path |-> <<>>, err |-> cc.err, step |-> 0]
    ELSE With(decompile(cc.c.operations, cc.c.step, obj), LAMBDA r :
      IF r.err # NoErr \/ r.path = <<>> THEN [path |-> <<>>, err |-> r.err, step |-> r.step]
      ELSE [path |-> <<"$">> \o r.path, err |-> NoErr, step |-> r.step]))

(***************************************************************************)
(* Set.  _Lookup hands out Go values that share storage with the document: *)
(* a map or a slice read from the document is the document's own, a range  *)
(* is a window on the document's slice, and the arrays _getByKey, a list   *)
(* of indices and getFiltered build are new arrays of such values.  The    *)
(* model names a value by a handle saying where it lives.                  *)
(***************************************************************************)
ErrSetLevels == "need at least one levels to set value"

ErrSetMultiple == "cannot set multiple items"

ErrSetEmpty == "cannot set on empty slice"

ErrSetPosition == "set must point to specific position"

ErrSetNotMap == "object is not map"

ErrSetIdxRange == "index out of range"

ErrSetNotSlice == "object is not Slice"

\* One step into the document: a key of a map or a 0-based index of a slice.
AtKey(k) == [isIdx |-> FALSE, key |-> k, idx |-> 0]

AtIdx(i) == [isIdx |-> TRUE, key |-> <<>>, idx |-> i]

\* Handles: the value stored at path p of the document; the window [lo, hi)
\* on the slice stored at p; a new array of handles.
Loc(p) == [k |-> "loc", p |-> p, lo |-> 0, hi |-> 0, el |-> <<>>]

View(p, lo, hi) == [k |-> "view", p |-> p, lo |-> lo, hi |-> hi, el |-> <<>>]

Fresh(el) == [k |-> "fresh", p |-> <<>>, lo |-> 0, hi |-> 0, el |-> el]

RECURSIVE ValueAt(_, _)
\* The value stored at path p of doc.
ValueAt(doc, p) ==
  IF p = <<>> THEN doc
  ELSE IF p[1].isIdx THEN ValueAt(doc.a[p[1].idx + 1], Tail(p))
  ELSE ValueAt(doc.m[p[1].key], Tail(p))

RECURSIVE WriteAt(_, _, _)
\* doc with val stored at path p (a key of a map is added when absent).
WriteAt(doc, p, val) ==
  IF p = <<>> THEN val
  ELSE IF p[1].isIdx
  THEN [doc EXCEPT !.a[p[1].idx + 1] = WriteAt(doc.a[p[1].idx + 1], Tail(p), val)]
  ELSE LET key == p[1].key IN
       [doc EXCEPT !.m = [k \in (DOMAIN doc.m) \cup {key} |->
                            IF k = key
                            THEN WriteAt(IF key \in DOMAIN doc.m THEN doc.m[key] ELSE Null,
                                         Tail(p), val)
                            ELSE doc.m[k]]]

RECURSIVE hVal(_, _)
\* The value a handle stands for.
hVal(doc, h) ==
  CASE h.k = "loc"  -> ValueAt(doc, h.p)
    [] h.k = "view" -> Arr(SubSeq(ValueAt(doc, h.p).a, h.lo + 1, h.hi))
    [] OTHER        -> Arr([i \in 1..Len(h.el) |-> hVal(doc, h.el[i])])

\* The handles of the elements of a slice handle.
hElems(doc, h) ==
  CASE h.k = "loc"  -> [i \in 1..Len(ValueAt(doc, h.p).a) |-> Loc(Append(h.p, AtIdx(i - 1)))]
    [] h.k = "view" -> [i \in 1..(h.hi - h.lo) |-> Loc(Append(h.p, AtIdx(h.lo + i - 1)))]
    [] OTHER        -> h.el

HOk(h) == [h |-> h, err |-> NoErr]

HFail(e) == [h |-> Loc(<<>>), err |-> e]

RECURSIVE hGetByKey(_, _, _)
\* _getByKey on a handle.
hGetByKey(doc, h, key) ==
  LET obj == hVal(doc, h) IN
  CASE Kind(obj) = "nil" -> HFail(ErrGetFromNullObj)
    [] Kind(obj) = "map" ->
         IF key \in DOMAIN obj.m THEN HOk(Loc(Append(h.p, AtKey(key)))) ELSE HFail(ErrNoKey)
    [] Kind(obj) = "slice" ->
         LET els == hElems(doc, h)
             RECURSIVE collect(_)
             collect(i) ==
               IF i > Len(els) THEN <<>>
               ELSE LET r == hGetByKey(doc, els[i], key) IN
                    (IF r.err = NoErr THEN <<r.h>> ELSE <<>>) \o collect(i + 1)
         IN HOk(Fresh(collect(1)))
    [] OTHER -> HFail(NotMap)

\* getByIdx on a handle.
hGetByIdx(doc, h, idx) ==
  LET r == getByIdx(hVal(doc, h), idx) IN
  IF r.err # NoErr THEN HFail(r.err)
  ELSE LET els == hElems(doc, h) IN
       HOk(els[(IF idx >= 0 THEN idx ELSE Len(els) + idx) + 1])

\* getByRange on a handle: a window on the same storage.
hGetByRange(doc, h, frm, to) ==
  LET obj == hVal(doc, h)
      r   == getByRange(obj, frm, to)
  IN IF r.err # NoErr THEN HFail(r.err)
     ELSE LET length == Len(obj.a)
              fv == IF frm.some THEN frm.v ELSE 0
              tv == IF to.some THEN to.v ELSE length - 1
              from2 == IF fv < 0 THEN length + fv ELSE fv
              to2 == IF tv < 0 THEN length + tv + 1 ELSE tv + 1
          IN CASE h.k = "loc"  -> HOk(View(h.p, from2, to2))
               [] h.k = "view" -> HOk(View(h.p, h.lo + from2, h.lo + to2))
               [] OTHER        -> HOk(Fresh(SubSeq(h.el, from2 + 1, to2)))

\* The handles of the values of a map handle, in the order of MapValues.
hMapValues(h, m) ==
  LET RECURSIVE vals(_)
      vals(keys) ==
        IF keys = {} THEN <<>>
        ELSE LET k == CHOOSE x \in keys : \A y \in keys : StrCmp(x, y) <= 0 IN
             <<Loc(Append(h.p, AtKey(k)))>> \o vals(keys \ {k})
  IN vals(DOMAIN m)

RECURSIVE hFilterItems(_, _, _, _, _)
\* The loop of getFiltered over the element handles els, from i on.
hFilterItems(doc, els, root, expressions, i) ==
  IF i > Len(els) THEN [v |-> <<>>, err |-> NoErr]
  ELSE With(matchAll(hVal(doc, els[i]), root, expressions, 1), LAMBDA r :
    IF r.err = Panic THEN [v |-> <<>>, err |-> Panic]
    ELSE With(hFilterItems(doc, els, root, expressions, i + 1), LAMBDA rest :
      IF rest.err = Panic THEN rest
      ELSE [v |-> (IF r.v THEN <<els[i]>> ELSE <<>>) \o rest.v, err |-> NoErr]))

\* getFiltered(obj, obj, filter) on a handle: a new array of the matching elements.
hGetFiltered(doc, h, filter) ==
  With(parseFilter(filter), LAMBDA p :
    With(hVal(doc, h), LAMBDA obj :
      IF p.err # NoErr \/ Len(p.v) = 0 THEN [h |-> Fresh(<<>>), err |-> p.err]
      ELSE IF Kind(obj) = "nil" THEN HFail(Panic)
      ELSE IF Kind(obj) \notin {"slice", "map"} THEN HFail(ErrFilterType)
      ELSE With(hFilterItems(doc,
                             IF Kind(obj) = "slice" THEN hElems(doc, h)
                             ELSE hMapValues(h, obj.m),
                             obj, p.v, 1),
                LAMBDA r : IF r.err # NoErr THEN HFail(r.err) ELSE HOk(Fresh(r.v)))))

RECURSIVE hIdxItems(_, _, _, _)
\* The loop of _Lookup over a list of two or more indices, from i on.
hIdxItems(doc, h, idxs, i) ==
  IF i > Len(idxs) THEN [v |-> <<>>, err |-> NoErr]
  ELSE LET item == hGetByIdx(doc, h, idxs[i]) IN
       IF item.err # NoErr THEN [v |-> <<>>, err |-> item.err]
       ELSE LET rest == hIdxItems(doc, h, idxs, i + 1) IN
            IF rest.err # NoErr THEN rest
            ELSE [v |-> <<item.h>> \o rest.v, err |-> NoErr]

\* One iteration of the loop of _Lookup: operation s applied to handle h.
_lookupOp(doc, s, h) ==
  CASE s.op = "key" -> hGetByKey(doc, h, s.key)
    [] s.op = "idx" ->
         LET k == IF Len(s.key) > 0 THEN hGetByKey(doc, h, s.key) ELSE HOk(h) IN
         IF k.err # NoErr THEN k
         ELSE IF s.args.kind # "ints" THEN HFail(Panic)
         ELSE IF Len(s.args.ints) > 1
         THEN LET r == hIdxItems(doc, k.h, s.args.ints, 1) IN
              IF r.err # NoErr THEN HFail(r.err) ELSE HOk(Fresh(r.v))
         ELSE IF Len(s.args.ints) = 1 THEN hGetByIdx(doc, k.h, s.args.ints[1])
         ELSE HFail(ErrEmptyIdx)
    [] s.op = "range" ->
         LET k == IF Len(s.key) > 0 THEN hGetByKey(doc, h, s.key) ELSE HOk(h) IN
         IF k.err # NoErr THEN k
         ELSE IF s.args.kind # "range" THEN HFail(ErrRangeArgs)
         ELSE hGetByRange(doc, k.h, s.args.frm, s.args.to)
    [] s.op = "filter" ->
         LET k == hGetByKey(doc, h, s.key) IN
         IF k.err # NoErr THEN k
         ELSE IF s.args.kind # "str" THEN HFail(Panic)
         ELSE hGetFiltered(doc, k.h, s.args.str)
    [] OTHER -> HFail(ErrUnsupported)

RECURSIVE _LookupFrom(_, _, _, _)
\* The loop of _Lookup over c.operations, from i on.
_LookupFrom(doc, operations, i, h) ==
  IF i > Len(operations) THEN HOk(h)
  ELSE With(_lookupOp(doc, operations[i], h), LAMBDA r :
    IF r.err # NoErr THEN r ELSE _LookupFrom(doc, operations, i + 1, r.h))

\* c._Lookup(obj): the handle of the result, or an error.
_Lookup(doc, operations) == _LookupFrom(doc, operations, 1, Loc(<<>>))

SetResult(doc, err) == [doc |-> doc, err |-> err]

RECURSIVE setByKey(_, _, _, _)
RECURSIVE setByKeyEach(_, _, _, _, _)

\* The slice case of setByKey: the loop over the elements, from i on.
setByKeyEach(doc, els, i, key, value) ==
  IF i > Len(els) THEN SetResult(doc, NoErr)
  ELSE LET r == setByKey(doc, els[i], key, value) IN
       IF r.err # NoErr THEN r ELSE setByKeyEach(r.doc, els, i + 1, key, value)

\* setByKey(obj, key, value): the document after the call, and the error.
setByKey(doc, h, key, value) ==
  LET obj == hVal(doc, h) IN
  CASE Kind(obj) = "nil"   -> SetResult(doc, ErrGetFromNullObj)
    [] Kind(obj) = "map"   -> SetResult(WriteAt(doc, Append(h.p, AtKey(key)), value), NoErr)
    [] Kind(obj) = "slice" -> setByKeyEach(doc, hElems(doc, h), 1, key, value)
    [] OTHER               -> SetResult(doc, ErrSetNotMap)

\* setByIdx(obj, idx, val).  Index(idx) of a negative idx panics, and so does
\* Set of the zero reflect.Value of a nil val.  Storing into a new array
\* leaves the document as it is.
setByIdx(doc, h, idx, val) ==
  LET obj == hVal(doc, h) IN
  IF Kind(obj) = "nil" THEN SetResult(doc, Panic)
  ELSE IF Kind(obj) # "slice" THEN SetResult(doc, ErrSetNotSlice)
  ELSE LET length == Len(obj.a) IN
       IF idx >= 0
       THEN IF idx >= length THEN SetResult(doc, ErrSetIdxRange)
            ELSE IF val = Null THEN SetResult(doc, Panic)
            ELSE LET e == hElems(doc, h)[idx + 1] IN
                 IF h.k = "fresh" THEN SetResult(doc, NoErr)
                 ELSE SetResult(WriteAt(doc, e.p, val), NoErr)
       ELSE IF length + idx < 0 THEN SetResult(doc, ErrSetIdxRange)
            ELSE SetResult(doc, Panic)

\* Set as it would be if it stored through the first of several indices.
SetFirstOfSeveral(doc, operations, val) ==
  IF Len(operations) < 1 THEN SetResult(doc, ErrSetLevels)
  ELSE With(_Lookup(doc, SubSeq(operations, 1, Len(operations) - 1)), LAMBDA parent :
    With(operations[Len(operations)], LAMBDA lastStep :
      IF parent.err # NoErr THEN SetResult(doc, parent.err)
      ELSE IF lastStep.op = "key" THEN setByKey(doc, parent.h, lastStep.key, val)
      ELSE IF lastStep.op # "idx" THEN SetResult(doc, ErrSetPosition)
      ELSE With(IF Len(lastStep.key) > 0
                THEN hGetByKey(doc, parent.h, lastStep.key) ELSE parent,
                LAMBDA k :
                  IF k.err # NoErr THEN SetResult(doc, k.err)
                  ELSE IF lastStep.args.kind # "ints" THEN SetResult(doc, Panic)
                  ELSE IF Len(lastStep.args.ints) >= 1
                  THEN setByIdx(doc, k.h, lastStep.args.ints[1], val)
                  ELSE SetResult(doc, ErrSetEmpty))))

\* c.Set(obj, val): the document after the call, and the error.
Set(doc, operations, val) ==
  IF Len(operations) < 1 THEN SetResult(doc, ErrSetLevels)
  ELSE With(_Lookup(doc, SubSeq(operations, 1, Len(operations) - 1)), LAMBDA parent :
    With(operations[Len(operations)], LAMBDA lastStep :
      IF parent.err # NoErr THEN SetResult(doc, parent.err)
      ELSE IF lastStep.op = "key" THEN setByKey(doc, parent.h, lastStep.key, val)
      ELSE IF lastStep.op # "idx" THEN SetResult(doc, ErrSetPosition)
      ELSE With(IF Len(lastStep.key) > 0
                THEN hGetByKey(doc, parent.h, lastStep.key) ELSE parent,
                LAMBDA k :
                  IF k.err # NoErr THEN SetResult(doc, k.err)
                  ELSE IF lastStep.args.kind # "ints" THEN SetResult(doc, Panic)
                  ELSE IF Len(lastStep.args.ints) > 1 THEN SetResult(doc, ErrSetMultiple)
                  ELSE IF Len(lastStep.args.ints) = 1
                  THEN setByIdx(doc, k.h, lastStep.args.ints[1], val)
                  ELSE SetResult(doc, ErrSetEmpty))))

(***************************************************************************)
(* Inputs of the model: bounds, documents and path texts.                  *)
(***************************************************************************)
\* The most elements of a generated array of objects.
MaxLen == 3

\* The most elements of a generated array of numbers.
MaxArr == 5

\* The largest index and range bound (in absolute value) of a generated path.
MaxIdx == 6

\* The number of Set calls made on one document.
MaxSets == 1

\* {"a": [10, 20, ...]} with n elements.
DocArr(n) == Map(<< <<<<"a">>, Arr([i \in 1..n |-> Num(10 * i)])>> >>)

\* An element {"b": {"c": v}, "t": [v, v+1]}.
Elem(v) ==
  Map(<< <<<<"b">>, Map(<< <<<<"c">>, Num(v)>> >>)>>,
         <<<<"t">>, Arr(<<Num(v), Num(v + 1)>>)>> >>)

\* An element without the key "b".
ElemNoB(v) == Map(<< <<<<"t">>, Arr(<<Num(v)>>)>> >>)

\* {"a": [e1, .., en]} whose element number j lacks the key "b" (none when j = 0).
DocElems(n, j) ==
  Map(<< <<<<"a">>, Arr([i \in 1..n |-> IF i = j THEN ElemNoB(i) ELSE Elem(i)])>> >>)

\* A book {"p": price, "t": title}.
Book(price, title) == Map(<< <<<<"p">>, Num(price)>>, <<<<"t">>, Str(title)>> >>)

\* {"s": {"b": [books]}, "e": e}: the bookstore fixture in small.
DocStore(e) ==
  Map(<< <<<<"s">>, Map(<< <<<<"b">>, Arr(<<Book(8, <<"x">>), Book(12, <<"y">>),
                                              Book(9, <<"z">>), Book(22, <<"y">>)>>)>> >>)>>,
         <<<<"e">>, Num(e)>> >>)

\* A document whose root is an array, and one with a null in the middle.
DocRootArr == Arr(<<Map(<< <<<<"t">>, Num(1)>> >>), Map(<< <<<<"t">>, Num(2)>> >>),
                    Map(<< <<<<"t">>, Num(3)>> >>)>>)

\* A bookstore whose first book has a null under "i".
DocStoreNull ==
  Map(<< <<<<"s">>, Map(<< <<<<"b">>, Arr(<<Map(<< <<<<"p">>, Num(8)>>, <<<<"i">>, Null>> >>),
                                              Book(12, <<"y">>)>>)>> >>)>>,
         <<<<"e">>, Num(10)>> >>)

\* The bookstores of the filter fixture.
StoreDocs == {DocStore(e) : e \in {10, 20}} \cup {DocStoreNull}

DocNull == Map(<< <<<<"a">>, Null>>, <<<<"e">>, Num(1)>> >>)

\* `$.a[i]`
IdxPath(i) == <<"$", ".", "a", "[">> \o Itoa(i) \o <<"]">>

\* `$.a[*]` followed by rest.
StarPath(rest) == <<"$", ".", "a", "[", "*", "]">> \o rest

\* `$.s.b[?(f)]` followed by rest.
FilterPath(f, rest) == <<"$", ".", "s", ".", "b", "[", "?", "(">> \o f \o <<")", "]">> \o rest

IdxPaths == {IdxPath(i) : i \in (0 - MaxIdx)..MaxIdx}

BroadcastPaths ==
  {StarPath(<<".", "b">>), StarPath(<<".", "b", ".", "c">>), StarPath(<<".", "t">>),
   StarPath(<<".", "t", "[", "0", ":", "]">>), StarPath(<<".", "t", "[", "0", ",", "1", "]">>),
   StarPath(<<".", "t", "[", "0", "]">>)}

Filters ==
  {<<"@", ".", "p", " ", ">", " ", "$", ".", "e">>,
   <<"@", ".", "p", " ", ">", " ", "1", "0">>,
   <<"@", ".", "p", " ", ">", " ", "1", "0", "0">>,
   <<"@", ".", "p", " ", ">", " ", "1", "0", " ", "&", "&", " ", "@", ".", "t", " ", "=", "=", " ", "'", "y", "'">>,
   <<"@", ".", "t", " ", "=", "~", " ", "/", "y", "/">>,
   <<"@", ".", "i">>,
   <<"@", ".", "i", "[", "0", "]", " ", "=", "=", " ", "1">>}

FilterPaths ==
  {FilterPath(f, <<>>) : f \in Filters} \cup {FilterPath(f, <<".", "p">>) : f \in Filters}

OtherPaths ==
  {<<"$", ".", "e">>, <<"$", ".", "a", "[", "0", "]", ".", "b">>,
   <<"$", ".", "a", "[", "0", "]", ".", "b", ".", "c">>,
   <<"$", "[", "0", "]", ".", "t">>, <<"$", "[", ":", "1", "]", ".", "t">>,
   <<"$", ".", ".", "t">>, <<"$">>, <<"$", ".", "a", ".", "b">>}

BadPaths == {<<"a">>, <<"$", ".", "a", "[", "x", "]">>}

\* `$.a[f:t]`, either bound left out when it is None.
RangePath(f, t) ==
  <<"$", ".", "a", "[">> \o (IF f.some THEN Itoa(f.v) ELSE <<>>) \o <<":">>
    \o (IF t.some THEN Itoa(t.v) ELSE <<>>) \o <<"]">>

\* The optional bounds of the generated ranges.
Bounds == {None} \cup {Some(i) : i \in (0 - MaxIdx)..MaxIdx}

RangePaths == {RangePath(f, t) : f \in Bounds, t \in Bounds}

SetPaths ==
  {<<"$", ".", "e">>, <<"$", ".", "a", "[", "0", "]">>, <<"$", ".", "a", "[", "-", "1", "]">>,
   <<"$", ".", "a", "[", "0", "]", ".", "b">>, <<"$", ".", "a", "[", "0", ",", "1", "]">>,
   <<"$", ".", "a", "[", "*", "]", ".", "b">>, <<"$", ".", "a", "[", "0", ":", "]", "[", "0", "]">>,
   <<"$", ".", "a", "[", "0", ":", "]">>, <<"$", ".", "a", "[", "?", "(", "@", ".", "b", ")", "]">>,
   <<"$", ".", "a", "[", "0", ",", "1", "]", ".", "b">>,
   <<"$", ".", "a", "[", "?", "(", "@", ".", "b", ")", "]", ".", "b">>,
   <<"$", ".", "a", "[", "0", ":", "]", "[", "0", "]", ".", "b">>}

\* A fixture is the path texts, the documents and the values to store that
\* one caller works with.
Fixture(paths, docs, values) == [paths |-> paths, docs |-> docs, values |-> values]

Fixtures ==
  {Fixture(BroadcastPaths, {DocElems(n, j) : n \in 2..MaxLen, j \in 0..MaxLen}, {}),
   Fixture(FilterPaths \cup {<<"$", ".", "s", ".", "b", "[", "0", "]", ".", "p">>},
           StoreDocs, {}),
   Fixture(OtherPaths, {DocRootArr, DocNull, DocElems(2, 0), DocStore(10)}, {}),
   Fixture(SetPaths, {DocArr(2), DocElems(2, 0), DocNull}, {Num(7), Null})}

\* The fixtures of the accessors: every index and every range on the arrays
\* of every length.
AccessFixtures ==
  {Fixture(IdxPaths, {DocArr(n) : n \in 0..MaxArr}, {}),
   Fixture(RangePaths, {DocArr(n) : n \in 0..MaxArr}, {})}

(***************************************************************************)
(* The program as a state machine: one Compiled object c, the caller's     *)
(* document doc, and the outcome of the latest call in last.               *)
(***************************************************************************)
\* The two callers of the concurrent runs.
Procs == {1, 2}

VARIABLES fixture, c, doc, last, sets, procs

vars == <<fixture, c, doc, last, sets, procs>>

\* The outcome of a call: op names the call, doc and pre are the document and
\* the cursor c.step before it, step the cursor of the Compiled object the
\* call worked on after it, out the path text TranslatePath returns.
Outcome(op, d, pre, res, isArray, err, step, out) ==
  [op |-> op, doc |-> d, pre |-> pre, res |-> res, isArray |-> isArray, err |-> err,
   step |-> step, out |-> out]

NoCall == Outcome("none", Null, 0, Null, FALSE, NoErr, 0, <<>>)

\* A caller of the concurrent runs: its own document, the stack of its Lookup
\* frames (the innermost last) and, once its Lookup has returned, the results.
Proc(state, d, stack, res, isArray, err) ==
  [state |-> state, doc |-> d, stack |-> stack, res |-> res, isArray |-> isArray, err |-> err]

IdleProc(d) == Proc("idle", d, <<>>, Null, FALSE, NoErr)

Init ==
  /\ fixture \in Fixtures
  /\ c \in {Compile(p).c : p \in fixture.paths}
  /\ doc \in fixture.docs
  /\ last = NoCall
  /\ sets = 0
  /\ procs = [q \in Procs |-> IdleProc(Null)]

\* c, err = Compile(p): the caller keeps the new object when err is nil.
CompileCall(p) ==
  /\ \E r \in {Compile(p)} :
       /\ c' = IF r.err = NoErr THEN r.c ELSE c
       /\ last' = Outcome("Compile", Null, 0, Null, FALSE, r.err, 0, p)
  /\ UNCHANGED <<fixture, doc, sets, procs>>

\* The caller takes up another document.
LoadDoc(d) ==
  /\ doc' = d
  /\ sets' = 0
  /\ last' = NoCall
  /\ UNCHANGED <<fixture, c, procs>>

\* c.Lookup(doc)
LookupCall ==
  /\ \E r \in {Lookup(c.operations, c.step, doc)} :
       /\ c' = [c EXCEPT !.step = r.step]
       /\ last' = Outcome("Lookup", doc, c.step, r.res, r.isArray, r.err, r.step, <<>>)
  /\ UNCHANGED <<fixture, doc, sets, procs>>

\* Get(doc, c.path)
GetCall ==
  /\ \E r \in {Get(doc, c.path)} :
       last' = Outcome("Get", doc, 0, r.res, r.isArray, r.err, r.step, <<>>)
  /\ UNCHANGED <<fixture, c, doc, sets, procs>>

\* c.Set(doc, val)
SetCall(val) ==
  /\ sets < MaxSets
  /\ \E r \in {Set(doc, c.operations, val)} :
       /\ doc' = r.doc
       /\ last' = Outcome("Set", doc, c.step, val, FALSE, r.err, c.step, <<>>)
  /\ sets' = sets + 1
  /\ UNCHANGED <<fixture, c, procs>>

\* TranslatePath(doc, c.path)
TranslatePathCall ==
  /\ \E r \in {TranslatePath(doc, c.path)} :
       last' = Outcome("TranslatePath", doc, 0, Null, FALSE, r.err, r.step, r.path)
  /\ UNCHANGED <<fixture, c, doc, sets, procs>>

Next ==
  \/ \E p \in fixture.paths \cup BadPaths : CompileCall(p)
  \/ \E d \in fixture.docs : LoadDoc(d)
  \/ LookupCall
  \/ GetCall
  \/ \E val \in fixture.values : SetCall(val)
  \/ TranslatePathCall

Spec == Init /\ [][Next]_vars

(***************************************************************************)
(* Lookup in steps, for callers that share one Compiled object.  A frame   *)
(* is one activation of Lookup; pc says where it stands: "enter" at its    *)
(* first line, "loop" in the loop of the slice case, "op" before           *)
(* c.operations[c.step], "next" before the test of c.next(), "load" and    *)
(* "store" before the read and the write of c.step++.  Every step reads or *)
(* writes c.step once and runs on to the caller's next access to it.       *)
(***************************************************************************)
Frame(pc, obj, i, arr, isArray, err, tmp) ==
  [pc |-> pc, obj |-> obj, i |-> i, arr |-> arr, isArray |-> isArray, err |-> err, tmp |-> tmp]

Enter(obj) == Frame("enter", obj, 0, <<>>, FALSE, NoErr, 0)

\* What a frame hands to its caller when it returns.
Ret(res, isArray, err) == [has |-> TRUE, res |-> res, isArray |-> isArray, err |-> err]

NoRet == [has |-> FALSE, res |-> Null, isArray |-> FALSE, err |-> NoErr]

Control(stack, ret) == [stack |-> stack, ret |-> ret]

Pop(stack) == SubSeq(stack, 1, Len(stack) - 1)

Top(stack) == stack[Len(stack)]

RECURSIVE settle(_, _)
\* The steps of Lookup that do not touch c.step, run until the innermost
\* frame stands before an access to c.step or the outermost frame returns.
settle(stack, ret) ==
  IF stack = <<>> THEN Control(stack, ret)
  ELSE IF ret.has
  THEN IF ret.err = Panic THEN Control(<<>>, ret)
       ELSE settle(Append(Pop(stack),
                          [Top(stack) EXCEPT
                             !.i = @ + 1, !.isArray = ret.isArray, !.err = ret.err,
                             !.arr = IF ret.err # NoErr THEN @
                                     ELSE IF ret.isArray /\ Kind(ret.res) = "slice"
                                     THEN @ \o ret.res.a
                                     ELSE Append(@, ret.res)]),
                   NoRet)
  ELSE IF Top(stack).pc = "enter"
  THEN IF Top(stack).obj = Null THEN settle(Pop(stack), Ret(Null, FALSE, NoErr))
       ELSE IF Kind(Top(stack).obj) = "slice"
       THEN settle(Append(Pop(stack), [Top(stack) EXCEPT !.pc = "loop", !.i = 1]), NoRet)
       ELSE IF Kind(Top(stack).obj) = "map"
       THEN Control(Append(Pop(stack), [Top(stack) EXCEPT !.pc = "op"]), NoRet)
       ELSE settle(Pop(stack), Ret(Null, FALSE, NotJSON))
  ELSE IF Top(stack).pc = "loop"
  THEN IF Top(stack).i > Len(Top(stack).obj.a)
       THEN settle(Pop(stack), Ret(Arr(Top(stack).arr), TRUE, Top(stack).err))
       ELSE settle(Append(stack, Enter(Top(stack).obj.a[Top(stack).i])), NoRet)
  ELSE Control(stack, NoRet)

\* Caller q goes on from ctl: it has returned when no frame is left.
Resume(q, ctl) ==
  procs' = [procs EXCEPT ![q] =
              IF ctl.stack = <<>>
              THEN Proc("done", @.doc, <<>>, ctl.ret.res, ctl.ret.isArray, ctl.ret.err)
              ELSE Proc("running", @.doc, ctl.stack, Null, FALSE, NoErr)]

\* Caller q calls c.Lookup(its document).
Call(q) ==
  /\ procs[q].state = "idle"
  /\ Resume(q, settle(<<Enter(procs[q].doc)>>, NoRet))
  /\ UNCHANGED <<fixture, c, doc, last, sets>>

\* operation := c.operations[c.step], and the switch on operation.op.
ReadOp(q) ==
  /\ procs[q].state = "running"
  /\ Top(procs[q].stack).pc = "op"
  /\ IF c.step < 0 \/ c.step >= Len(c.operations)
     THEN Resume(q, Control(<<>>, Ret(Null, FALSE, Panic)))
     ELSE \E o \in {lookupOp(c.operations[c.step + 1], Top(procs[q].stack).obj)} :
            IF o.err # NoErr
            THEN Resume(q, settle(Pop(procs[q].stack), Ret(Null, o.isArray, o.err)))
            ELSE Resume(q, Control(Append(Pop(procs[q].stack),
                                          [Top(procs[q].stack) EXCEPT
                                             !.pc = "next", !.obj = o.obj,
                                             !.isArray = o.isArray]),
                                   NoRet))
  /\ UNCHANGED <<fixture, c, doc, last, sets>>

\* c.next(): if c.step == len(c.operations)-1 { return nil }
NextTest(q) ==
  /\ procs[q].state = "running"
  /\ Top(procs[q].stack).pc = "next"
  /\ IF c.step = Len(c.operations) - 1
     THEN Resume(q, settle(Pop(procs[q].stack),
                           Ret(Top(procs[q].stack).obj, Top(procs[q].stack).isArray, NoErr)))
     ELSE Resume(q, Control(Append(Pop(procs[q].stack),
                                   [Top(procs[q].stack) EXCEPT !.pc = "load"]),
                            NoRet))
  /\ UNCHANGED <<fixture, c, doc, last, sets>>

\* c.step++, the read of c.step.
StepLoad(q) ==
  /\ procs[q].state = "running"
  /\ Top(procs[q].stack).pc = "load"
  /\ Resume(q, Control(Append(Pop(procs[q].stack),
                              [Top(procs[q].stack) EXCEPT !.pc = "store", !.tmp = c.step]),
                       NoRet))
  /\ UNCHANGED <<fixture, c, doc, last, sets>>

\* c.step++, the write of c.step; then return next.Lookup(obj).
StepStore(q) ==
  /\ procs[q].state = "running"
  /\ Top(procs[q].stack).pc = "store"
  /\ c' = [c EXCEPT !.step = Top(procs[q].stack).tmp + 1]
  /\ Resume(q, settle(Append(Pop(procs[q].stack), Enter(Top(procs[q].stack).obj)), NoRet))
  /\ UNCHANGED <<fixture, doc, last, sets>>

ConcPaths ==
  {<<"$", ".", "a", "[", "0", "]", ".", "b">>,
   <<"$", ".", "a", "[", "0", "]", ".", "b", ".", "c">>,
   StarPath(<<".", "b">>), StarPath(<<".", "b", ".", "c">>)}

ConcDocs == {DocElems(2, 0), DocElems(2, 1), DocElems(2, 2)}

\* One freshly compiled path shared by the two callers, each with a document
\* of its own.
InitConc ==
  /\ fixture = Fixture(ConcPaths, ConcDocs, {})
  /\ c \in {Compile(p).c : p \in fixture.paths}
  /\ doc = Null
  /\ last = NoCall
  /\ sets = 0
  /\ procs \in [Procs -> {IdleProc(d) : d \in fixture.docs}]

NextConc ==
  \E q \in Procs :
    \/ Call(q)
    \/ ReadOp(q)
    \/ NextTest(q)
    \/ StepLoad(q)
    \/ StepStore(q)

SpecConc == InitConc /\ [][NextConc]_vars

\* The accessors on their own: one Compiled object per index or range path,
\* one document per array length, and the calls that read.
InitAccess ==
  /\ fixture \in AccessFixtures
  /\ c \in {Compile(p).c : p \in fixture.paths}
  /\ doc \in fixture.docs
  /\ last = NoCall
  /\ sets = 0
  /\ procs = [q \in Procs |-> IdleProc(Null)]

NextAccess ==
  \/ LookupCall
  \/ GetCall

SpecAccess == InitAccess /\ [][NextAccess]_vars

(***************************************************************************)
(* The tokenizer and Compile on every short path text.                     *)
(***************************************************************************)
\* The longest generated path text.
MaxText == 6

\* The characters of the generated texts after the first.
PathChars == {"$", ".", "*", "a"}

\* Every text of at most MaxText characters: any first character of
\* PathChars or "@", then characters of PathChars.
Texts ==
  UNION {{[i \in 1..n |-> IF i = 1 THEN h ELSE t[i]] :
            h \in PathChars \cup {"@"}, t \in [1..n -> PathChars]} : n \in 1..MaxText}
    \cup {<<>>}

\* No Compiled object yet (Go: a nil *Compiled).
NoCompiled == Compiled(<<>>, <<>>, 0)

InitParse ==
  /\ fixture \in {Fixture({t}, {Null}, {}) : t \in Texts}
  /\ c = NoCompiled
  /\ doc = Null
  /\ last = NoCall
  /\ sets = 0
  /\ procs = [q \in Procs |-> IdleProc(Null)]

\* tokens, err = parse(p): out holds the tokens.
ParseCall(p) ==
  /\ \E r \in {parse(p)} :
       last' = Outcome("parse", Null, 0, Null, FALSE, r.err, 0, r.v)
  /\ UNCHANGED <<fixture, c, doc, sets, procs>>

NextParse ==
  \/ \E p \in fixture.paths : ParseCall(p)
  \/ \E p \in fixture.paths : CompileCall(p)

SpecParse == InitParse /\ [][NextParse]_vars

(***************************************************************************)
(* The filter evaluator on its own: evalFilter applied to an element, a    *)
(* root and the three parts of a filter.                                   *)
(***************************************************************************)
OpExists == <<"e", "x", "i", "s", "t", "s">>

OpMatch == <<"=", "~">>

\* The elements a filter is evaluated on.
EvalObjs ==
  {Map(<< <<<<"a">>, Num(1)>> >>),
   Map(<< <<<<"a">>, Null>> >>),
   Map(<< <<<<"a">>, Str(<<"y">>)>> >>),
   Map(<< <<<<"a">>, Str(<<"n">>)>> >>),
   Map(<< <<<<"a">>, Arr(<<Num(1)>>)>> >>),
   Map(<< <<<<"a">>, Num(1)>>, <<<<"b">>, Map(<< <<<<"c">>, Num(2)>> >>)>> >>)}

\* The roots "$" stands for.
EvalRoots ==
  {Map(<< <<<<"a">>, Num(1)>> >>),
   Map(<< <<<<"a">>, Str(<<"y">>)>> >>),
   Map(<< <<<<"b">>, Map(<< <<<<"c">>, Num(2)>> >>)>> >>)}

\* Left operands: paths from the element, paths from the root, a literal.
EvalOperands ==
  {<<"@", ".", "a">>, <<"@", ".", "b">>, <<"@", ".", "b", ".", "c">>,
   <<"$", ".", "a">>, <<"$", ".", "b">>, <<"$", ".", "b", ".", "a">>, <<"y">>}

EvalOps == {OpExists, OpMatch, <<"=", "=">>, <<">">>}

\* Right operands: nothing, patterns (well formed or not), literals.
EvalRights == {<<>>, <<"/", "y", "/">>, <<"/", "y">>, <<"/", "(", "/">>, <<"1">>, <<"y">>}

InitEval ==
  /\ fixture \in {Fixture({lp}, {obj}, {}) : lp \in EvalOperands, obj \in EvalObjs}
  /\ c = NoCompiled
  /\ doc \in EvalRoots
  /\ last = NoCall
  /\ sets = 0
  /\ procs = [q \in Procs |-> IdleProc(Null)]

\* ok, err = evalFilter(obj, doc, lp, op, rp): doc is the root, out holds the
\* three parts of the filter and res the boolean.
EvalFilterCall(obj, lp, op, rp) ==
  /\ \E r \in {evalFilter(obj, doc, lp, op, rp)} :
       last' = Outcome("evalFilter", obj, 0, Bool(r.v), FALSE, r.err, 0, <<lp, op, rp>>)
  /\ UNCHANGED <<fixture, c, doc, sets, procs>>

NextEval ==
  \E obj \in fixture.docs, lp \in fixture.paths, op \in EvalOps, rp \in EvalRights :
    EvalFilterCall(obj, lp, op, rp)

SpecEval == InitEval /\ [][NextEval]_vars

(***************************************************************************)
(* The canonicalizer on documents whose arrays sit under the keys that     *)
(* getFilterExpr knows.                                                    *)
(***************************************************************************)
KTips == <<"t", "i", "p", "s">>

KTipLevel == <<"t", "i", "p", "L", "e", "v", "e", "l">>

KOptions == <<"o", "p", "t", "i", "o", "n", "s">>

KProperties == <<"p", "r", "o", "p", "e", "r", "t", "i", "e", "s">>

KName == <<"n", "a", "m", "e">>

KCodes == <<"e", "r", "r", "o", "r", "C", "o", "d", "e", "M", "a", "p", "p", "i", "n", "g">>

KCode == <<"e", "r", "r", "o", "r", "C", "o", "d", "e">>

KParameters == <<"p", "a", "r", "a", "m", "e", "t", "e", "r", "s">>

KSchema == <<"s", "c", "h", "e", "m", "a">>

KIn == <<"i", "n">>

\* {key: [{field: v1, "v": 1}, {field: v2, "v": 2}]}
DocTagged(key, field, v1, v2) ==
  Map(<< <<key, Arr(<<Map(<< <<field, v1>>, <<<<"v">>, Num(1)>> >>),
                       Map(<< <<field, v2>>, <<<<"v">>, Num(2)>> >>)>>)>> >>)

\* A parameter {"in": in, "schema": {"name": name}}.
Parameter(in, name) ==
  Map(<< <<KIn, Str(in)>>, <<KSchema, Map(<< <<KName, Str(name)>> >>)>> >>)

\* {"parameters": [two parameters], "schema": [two schemas]}
DocParameters ==
  Map(<< <<KParameters, Arr(<<Parameter(<<"q">>, <<"x">>), Parameter(<<"h">>, <<"y">>)>>)>>,
         <<KSchema, Arr(<<Map(<< <<KName, Str(<<"x">>)>> >>),
                          Map(<< <<KName, Str(<<"y">>)>> >>)>>)>> >>)

\* A document whose root is an array without elements.
DocEmptyRoot == Arr(<<>>)

\* The values of a discriminating field.
Tags == {Str(<<"x">>), Str(<<"y">>), Num(1)}

\* Arrays of two tagged records, the tags equal or not; records under a known
\* key without its field; parameters; plain elements, with and without the
\* key "b"; an empty root array.
CanonDocs ==
  {DocTagged(k[1], k[2], v1, v2) :
     k \in {<<KTips, KTipLevel>>, <<KOptions, KName>>, <<KCodes, KCode>>},
     v1 \in Tags, v2 \in Tags}
    \cup {DocTagged(KProperties, KName, Str(<<"x">>), Str(<<"y">>)),
          DocTagged(KOptions, <<"w">>, Num(1), Num(2)),
          DocParameters, DocElems(2, 0), DocEmptyRoot, DocElems(1, 1)}

\* `$.key[i]` followed by rest.
KeyIdxPath(key, i, rest) == <<"$", ".">> \o key \o <<"[">> \o Itoa(i) \o <<"]">> \o rest

CanonPaths ==
  {KeyIdxPath(k, i[1], i[2]) :
     k \in {KTips, KOptions, KProperties, KCodes, KParameters, KSchema, <<"a">>},
     i \in {<<0, <<>>>>, <<1, <<>>>>, <<1, <<".", "v">>>>}}
    \cup {<<"$", ".", "a", "[", "0", ",", "1", "]", ".", "b">>,
          <<"$", ".", "a", "[", "*", "]", ".", "b">>,
          <<"$", ".", "a", "[", "?", "(", "@", ".", "b", ")", "]", ".", "t">>}

InitCanon ==
  /\ fixture = Fixture(CanonPaths, CanonDocs, {})
  /\ c \in {Compile(p).c : p \in fixture.paths}
  /\ doc \in fixture.docs
  /\ last = NoCall
  /\ sets = 0
  /\ procs = [q \in Procs |-> IdleProc(Null)]

NextCanon ==
  \/ \E p \in fixture.paths : CompileCall(p)
  \/ \E d \in fixture.docs : LoadDoc(d)
  \/ GetCall
  \/ TranslatePathCall

SpecCanon == InitCanon /\ [][NextCanon]_vars

(***************************************************************************)
(* The comparator on its own: compare applied to two values and an         *)
(* operator.                                                               *)
(***************************************************************************)
\* Numbers, texts that parse as numbers (with a fraction, a sign, leading
\* zeros) and texts that do not.
CompareValues ==
  {Num(1), Num(2), Num(9), Num(20), Num(-3),
   Str(<<"1">>), Str(<<"2", ".", "0">>), Str(<<"1", "0", "0">>), Str(<<"-", "3">>),
   Str(<<"0", "1", "0">>), Str(<<"0", "8">>), Str(<<"0", ".", "5">>),
   Str(<<"a">>), Str(<<"a", "b">>), Str(<<"b">>), Str(<<"B">>), Str(<<>>), Str(<<"1", "a">>)}

CompareOps == {<<"<">>, <<"<", "=">>, <<"=", "=">>, <<">", "=">>, <<">">>, <<"=", "~">>, <<"!", "=">>}

InitCompare ==
  /\ fixture \in {Fixture({}, {obj1}, {obj2}) : obj1 \in CompareValues, obj2 \in CompareValues}
  /\ c = NoCompiled
  /\ doc = Null
  /\ last = NoCall
  /\ sets = 0
  /\ procs = [q \in Procs |-> IdleProc(Null)]

\* ok, err = compare(obj1, obj2, op): doc holds obj1, out holds obj2 and op,
\* res the boolean.
CompareCall(obj1, obj2, op) ==
  /\ \E r \in {compare(obj1, obj2, op)} :
       last' = Outcome("compare", obj1, 0, Bool(r.v), FALSE, r.err, 0, <<obj2, op>>)
  /\ UNCHANGED <<fixture, c, doc, sets, procs>>

NextCompare ==
  \E obj1 \in fixture.docs, obj2 \in fixture.values, op \in CompareOps :
    CompareCall(obj1, obj2, op)

SpecCompare == InitCompare /\ [][NextCompare]_vars

(***************************************************************************)
(* Set through one index: every index path on the arrays of every length.  *)
(***************************************************************************)
InitSetIdx ==
  /\ fixture = Fixture(IdxPaths, {DocArr(n) : n \in 0..MaxArr}, {Num(7)})
  /\ c \in {Compile(p).c : p \in fixture.paths}
  /\ doc \in fixture.docs
  /\ last = NoCall
  /\ sets = 0
  /\ procs = [q \in Procs |-> IdleProc(Null)]

NextSetIdx ==
  \/ \E val \in fixture.values : SetCall(val)
  \/ GetCall

SpecSetIdx == InitSetIdx /\ [][NextSetIdx]_vars

(***************************************************************************)
(* The operation parser on its own: parseFragment applied to a token.      *)
(***************************************************************************)
\* The longest generated bracket body.
MaxBody == 4

\* The characters of the generated bracket bodies.
BodyChars == {"?", "(", ")", ":", ",", "*", "-", "1", "x", " "}

\* Every text of at most MaxBody characters of BodyChars.
Bodies == UNION {[1..n -> BodyChars] : n \in 0..MaxBody}

\* `$`, `*`, a key, and a bracket with every body, after a key or after none.
Tokens ==
  {<<"$">>, <<"*">>, <<"a">>}
    \cup {key \o <<"[">> \o body \o <<"]">> : key \in {<<>>, <<"a">>}, body \in Bodies}

InitFragment ==
  /\ fixture \in {Fixture({t}, {Null}, {}) : t \in Tokens}
  /\ c = NoCompiled
  /\ doc = Null
  /\ last = NoCall
  /\ sets = 0
  /\ procs = [q \in Procs |-> IdleProc(Null)]

\* op, key, args, err = parseFragment(token): out holds the token and the
\* first three results.
ParseFragmentCall(token) ==
  /\ \E r \in {parseFragment(token)} :
       last' = Outcome("parseFragment", Null, 0, Null, FALSE, r.err, 0,
                       <<token, r.op, r.key, r.args>>)
  /\ UNCHANGED <<fixture, c, doc, sets, procs>>

NextFragment == \E token \in fixture.paths : ParseFragmentCall(token)

SpecFragment == InitFragment /\ [][NextFragment]_vars

(***************************************************************************)
(* The filter grammar on its own: parseFilter applied to a filter text.    *)
(***************************************************************************)
\* Operand texts: paths, a number, quoted texts with and without a space.
FilterOperands ==
  {<<"@", ".", "x">>, <<"$", ".", "e">>, <<"1", "0">>, <<"'", "a", "'">>,
   <<"'", "a", " ", "b", "'">>, <<"'", " ", "a", "'">>}

FilterOps == {<<"=", "=">>, <<"<">>, <<"=", "~">>}

\* `l op r`
Comparison(l, op, r) == l \o <<" ">> \o op \o <<" ">> \o r

\* Lone operands, comparisons, and conjunctions of a lone path and a comparison.
FilterTexts ==
  FilterOperands
    \cup {Comparison(l, op, r) : l \in FilterOperands, op \in FilterOps, r \in FilterOperands}
    \cup {<<"@", ".", "x", " ", "&", "&", " ">> \o Comparison(l, <<"=", "=">>, r) :
            l \in FilterOperands, r \in FilterOperands}

InitFilterParse ==
  /\ fixture \in {Fixture({f}, {Null}, {}) : f \in FilterTexts}
  /\ c = NoCompiled
  /\ doc = Null
  /\ last = NoCall
  /\ sets = 0
  /\ procs = [q \in Procs |-> IdleProc(Null)]

\* expressions, err = parseFilter(filter): out holds the filter and the
\* expressions.
ParseFilterCall(filter) ==
  /\ \E r \in {parseFilter(filter)} :
       last' = Outcome("parseFilter", Null, 0, Null, FALSE, r.err, 0, <<filter, r.v>>)
  /\ UNCHANGED <<fixture, c, doc, sets, procs>>

NextFilterParse == \E filter \in fixture.paths : ParseFilterCall(filter)

SpecFilterParse == InitFilterParse /\ [][NextFilterParse]_vars

(***************************************************************************)
(* Properties.                                                             *)
(***************************************************************************)
\* Whether the latest call returned what r holds.
Returned(r) == last.res = r.res /\ last.isArray = r.isArray /\ last.err = r.err

\* C1: a compiled path is reusable: every c.Lookup(d), after any number of
\* earlier Lookup calls on c, returns the value, isArray and error that Lookup
\* of a freshly compiled copy of the same path text returns on d.
ReusableCompiled ==
  last.op = "Lookup" => Returned(Lookup(Compile(c.path).c.operations, 0, last.doc))

\* C2: two callers that run Lookup concurrently on one compiled path, each on
\* a document of its own, obtain in every interleaving of their steps the
\* result of a sequential Lookup of the path on their own document.
ConcurrentLookupSequential ==
  \A q \in Procs :
    procs[q].state = "done" =>
      \E r \in {Lookup(c.operations, 0, procs[q].doc)} :
        procs[q].res = r.res /\ procs[q].isArray = r.isArray /\ procs[q].err = r.err

\* C3: Lookup, Set and TranslatePath's decompile leave the Compiled object as
\* it was: the operations, the path text and the step cursor after the call
\* equal those before it.
CompiledUnchanged ==
  [][last'.op \in {"Lookup", "Set", "TranslatePath"} =>
       c' = c /\ last'.step = last'.pre]_vars

\* Whether the latest call is a Lookup that found the cursor at 0, as it is
\* on a freshly compiled path.
FreshLookup == last.op = "Lookup" /\ last.pre = 0

\* Whether d has an array under the key "a".
HasArrayA(d) == Kind(d) = "map" /\ <<"a">> \in DOMAIN d.m /\ Kind(d.m[<<"a">>]) = "slice"

\* What the element el contributes to a broadcast of operations when it is
\* looked up alone: nothing when its Lookup fails, its elements when the
\* result is tagged isArray, the result as one item otherwise.
Contribution(operations, el) ==
  LET r == Lookup(operations, 0, el) IN
  IF r.err # NoErr THEN <<>>
  ELSE IF r.isArray /\ Kind(r.res) = "slice" THEN r.res.a
  ELSE <<r.res>>

RECURSIVE Contributions(_, _)
\* The contributions of the items, in the order of the items.
Contributions(operations, items) ==
  IF items = <<>> THEN <<>>
  ELSE Contribution(operations, Head(items)) \o Contributions(operations, Tail(items))

\* C4: array broadcast applies the whole remainder of the path to every
\* element: Lookup of `$.a[*]` followed by k >= 1 operations returns, in the
\* order of the elements of a, what each element gives when those k operations
\* are looked up on it alone (k = 2 for `$.a[*].b.c`).
BroadcastWholeRemainder ==
  (FreshLookup /\ c.path \in BroadcastPaths /\ HasArrayA(last.doc))
    => last.res = Arr(Contributions(Tail(c.operations), last.doc.m[<<"a">>].a))

\* The books of a bookstore document.
Books(d) == d.m[<<"s">>].m[<<"b">>].a

\* C5: in a filter an operand `$.…` is read from the document given to
\* Lookup: `$.s.b[?(@.p > $.e)].p` returns the p of exactly the books whose p
\* exceeds the e of the document.
FilterRootOperand ==
  (/\ FreshLookup
   /\ c.path = FilterPath(<<"@", ".", "p", " ", ">", " ", "$", ".", "e">>, <<".", "p">>)
   /\ last.doc \in {DocStore(e) : e \in {10, 20}})
    => /\ last.err = NoErr
       /\ last.res =
            Arr([i \in 1..Len(SelectSeq(Books(last.doc),
                                     LAMBDA b : b.m[<<"p">>].n > last.doc.m[<<"e">>].n)) |->
                   SelectSeq(Books(last.doc),
                          LAMBDA b : b.m[<<"p">>].n > last.doc.m[<<"e">>].n)[i].m[<<"p">>]])

\* Whether every conjunct of the filter text f holds of the element el of the
\* document root (an operand `@.…` read from el, an operand `$.…` from root);
\* a conjunct that fails to evaluate does not hold.
AllConjunctsHold(f, el, root) ==
  \A i \in 1..Len(parseFilter(f).v) :
    evalFilter(el, root, parseFilter(f).v[i].lp, parseFilter(f).v[i].op,
               parseFilter(f).v[i].rp).v

\* C6: a filter step `b[?(f)]` returns, tagged isArray, exactly the elements
\* of the array under b of which every conjunct of f holds, in their order,
\* and no error; an element of which a conjunct is false or fails to evaluate
\* is left out, the step goes on.
FilterKeepsMatching ==
  \A f \in Filters :
    (FreshLookup /\ c.path = FilterPath(f, <<>>) /\ last.doc \in StoreDocs)
      => /\ last.err = NoErr
         /\ last.isArray
         /\ last.res = Arr(SelectSeq(Books(last.doc),
                                  LAMBDA el : AllConjunctsHold(f, el, last.doc)))

\* C7: partial results of a broadcast: Lookup and Get of `$.a[*].b` on an
\* array with an element that has no b return the b of the other elements and
\* no error, whichever element it is.
BroadcastSkipsFailing ==
  (/\ last.op \in {"Lookup", "Get"}
   /\ last.pre = 0
   /\ c.path = StarPath(<<".", "b">>)
   /\ HasArrayA(last.doc))
    => /\ last.err = NoErr
       /\ last.res = Arr(Contributions(Tail(c.operations), last.doc.m[<<"a">>].a))

\* Whether the latest call is a fresh Lookup of `$.a[*]` followed by exactly
\* one operation, on a document with an array under a.
BroadcastOfOne ==
  /\ FreshLookup
  /\ c.path \in BroadcastPaths
  /\ Len(c.operations) = 2
  /\ HasArrayA(last.doc)

RECURSIVE ArrayLikeSpliced(_, _)
\* The aggregate of a broadcast that splices every array-like result of an
\* element, wherever it came from, and appends every other result.
ArrayLikeSpliced(operations, items) ==
  IF items = <<>> THEN <<>>
  ELSE LET r == Lookup(operations, 0, Head(items)) IN
       (IF r.err # NoErr THEN <<>>
        ELSE IF Kind(r.res) = "slice" THEN r.res.a
        ELSE <<r.res>>) \o ArrayLikeSpliced(operations, Tail(items))

SingleIndexLookup ==
  \A i \in (0 - MaxIdx)..MaxIdx :
    (FreshLookup /\ c.path = IdxPath(i) /\ HasArrayA(last.doc))
      => LET a == last.doc.m[<<"a">>].a
             n == Len(a)
         IN IF 0 <= i /\ i < n
              THEN last.err = NoErr /\ ~last.isArray /\ last.res = a[i + 1]
            ELSE IF 0 - n <= i /\ i < 0
              THEN last.err = NoErr /\ ~last.isArray /\ last.res = a[n + i + 1]
            ELSE last.err = ErrIdxRange

\* C9, its case: `$.a[-1]` on [10, 20, 30] returns 30.
NegativeIndexWraps ==
  /\ FreshLookup
  /\ c.path = IdxPath(-1)
  /\ last.doc = DocArr(3)
  /\ last.err = NoErr
  /\ last.res = Num(30)

\* The position a bound of a range means in an array of length n: the
\* default when the bound is absent, n + v when v is negative.
Position(bound, default, n) ==
  IF ~bound.some THEN default ELSE IF bound.v < 0 THEN n + bound.v ELSE bound.v

\* C10: Lookup of `$.a[from:to]` on an array of length n >= 1, with from
\* defaulting to 0, to defaulting to n-1 and a negative bound counted from
\* the end, returns, tagged isArray, the elements at the positions from..to
\* inclusive in their order, whenever both positions are in the array and
\* from is not beyond to; so `[0:]` and `[:n-1]` return the whole array and
\* `[-2:]` the last two elements.
RangeLookupInclusive ==
  \A f \in Bounds, t \in Bounds :
    (FreshLookup /\ c.path = RangePath(f, t) /\ HasArrayA(last.doc))
      => LET a == last.doc.m[<<"a">>].a
             n == Len(a)
             from == Position(f, 0, n)
             to == Position(t, n - 1, n)
         IN (n >= 1 /\ 0 <= from /\ from <= to /\ to <= n - 1)
              => /\ last.err = NoErr
                 /\ last.isArray
                 /\ last.res = Arr(SubSeq(a, from + 1, to + 1))
                 /\ (f = Some(0) /\ t = None => last.res = Arr(a))
                 /\ (f = None /\ t = Some(n - 1) => last.res = Arr(a))
                 /\ (f = Some(-2) /\ t = None => last.res = Arr(<<a[n - 1], a[n]>>))

\* C10, its case: `$.a[3:-1]` on five elements returns the last two.
RangeToMinusOne ==
  /\ FreshLookup
  /\ c.path = RangePath(Some(3), Some(-1))
  /\ last.doc = DocArr(5)
  /\ last.err = NoErr
  /\ last.res = Arr(<<Num(40), Num(50)>>)

\* The paths of the set fixture made of key steps and single-index steps.
SingleTargetPaths ==
  {<<"$", ".", "e">>, <<"$", ".", "a", "[", "0", "]">>, <<"$", ".", "a", "[", "-", "1", "]">>,
   <<"$", ".", "a", "[", "0", "]", ".", "b">>}

\* The document d with v at the position that the single-target path p
\* designates in it, every other position as it was.
Stored(d, p, v) ==
  CASE p = <<"$", ".", "e">> -> [d EXCEPT !.m[<<"e">>] = v]
    [] p = <<"$", ".", "a", "[", "0", "]">> -> [d EXCEPT !.m[<<"a">>].a[1] = v]
    [] p = <<"$", ".", "a", "[", "-", "1", "]">> ->
         [d EXCEPT !.m[<<"a">>].a[Len(d.m[<<"a">>].a)] = v]
    [] OTHER -> [d EXCEPT !.m[<<"a">>].a[1].m[<<"b">>] = v]

\* Whether the latest call is a Set through a single-target path whose
\* target Get finds in the document handed to Set.
SetOfOneTarget ==
  /\ last.op = "Set"
  /\ c.path \in SingleTargetPaths
  /\ Get(last.doc, c.path).err = NoErr

\* C11: Set/Get round trip: Set of v through a path of key steps and single
\* index steps (positive or negative) that designates one target succeeds, a
\* following Get of the path returns v not tagged isArray, and every other
\* position of the document keeps its value.
SetGetRoundTrip ==
  SetOfOneTarget
    => /\ last.err = NoErr
       /\ Get(doc, c.path).err = NoErr
       /\ Get(doc, c.path).res = last.res
       /\ ~Get(doc, c.path).isArray
       /\ doc = Stored(last.doc, c.path, last.res)

\* The paths of the set fixture whose final step is a list of two indices, a
\* range, a filter.
SeveralIndicesPath == <<"$", ".", "a", "[", "0", ",", "1", "]">>

FinalRangePath == <<"$", ".", "a", "[", "0", ":", "]">>

FinalFilterPath == <<"$", ".", "a", "[", "?", "(", "@", ".", "b", ")", "]">>

\* C12: Set through a path whose final step is a list of two or more indices
\* fails with the error of setting multiple items and leaves the document as
\* it was; when the final step is a range or a filter it fails with the error
\* of a set that does not point to a specific position, the document as it was.
SetAmbiguousFinalStep ==
  (last.op = "Set" /\ Kind(last.doc) = "map" /\ <<"a">> \in DOMAIN last.doc.m)
    => /\ c.path = SeveralIndicesPath => last.err = ErrSetMultiple /\ doc = last.doc
       /\ c.path \in {FinalRangePath, FinalFilterPath}
            => last.err = ErrSetPosition /\ doc = last.doc

\* C12, its case: Set through `$.a[0,1]` on {"a": [10, 20]} is refused and the
\* array is as it was.
SetSeveralIndicesRefused ==
  /\ last.op = "Set"
  /\ c.path = SeveralIndicesPath
  /\ last.doc = DocArr(2)
  /\ last.err = ErrSetMultiple
  /\ doc = DocArr(2)

\* The paths of the set fixture with a list of two indices, a filter, before
\* the final key.
ThroughSeveralPaths ==
  {<<"$", ".", "a", "[", "0", ",", "1", "]", ".", "b">>,
   <<"$", ".", "a", "[", "?", "(", "@", ".", "b", ")", "]", ".", "b">>}

\* C13: Set through a step before the final one that is a list of two or
\* more indices or a filter is refused: it returns an error and writes to no
\* element of the document.
SetThroughSeveralRefused ==
  (last.op = "Set" /\ c.path \in ThroughSeveralPaths /\ HasArrayA(last.doc))
    => last.err # NoErr /\ doc = last.doc

\* `$..t`
ScanPath == <<"$", ".", ".", "t">>

\* C14: a Scan step is evaluated, not rejected: Lookup of `$..t` returns no
\* error, and on the array [{"t": 1}, {"t": 2}, {"t": 3}] it returns the t of
\* every child, [1, 2, 3].
ScanEvaluated ==
  (FreshLookup /\ c.path = ScanPath /\ Kind(last.doc) \in {"map", "slice"})
    => /\ last.err = NoErr
       /\ last.doc = DocRootArr => last.res = Arr(<<Num(1), Num(2), Num(3)>>)

\* C15: on a document whose root is an array a leading keyless index or range
\* applies to the root array itself: on [{"t": 1}, {"t": 2}, {"t": 3}] Lookup
\* of `$[0].t` returns 1, not tagged isArray and no error, and Lookup of
\* `$[:1].t` returns [1, 2].
RootArrayIndexed ==
  (FreshLookup /\ last.doc = DocRootArr)
    => /\ c.path = <<"$", "[", "0", "]", ".", "t">>
            => last.err = NoErr /\ ~last.isArray /\ last.res = Num(1)
       /\ c.path = <<"$", "[", ":", "1", "]", ".", "t">>
            => last.err = NoErr /\ last.res = Arr(<<Num(1), Num(2)>>)

\* Whether the text p begins with `$` or `@`.
StartsAtRoot(p) == p # <<>> /\ p[1] \in {"$", "@"}

\* C16: every path text that does not begin with `$` or `@`, the empty text
\* included, makes parse and Compile return an error: no token list, no
\* Compiled object, no crash.
BadStartRejected ==
  \A p \in fixture.paths :
    (~StartsAtRoot(p) /\ last.op \in {"parse", "Compile"})
      => last.err \notin {NoErr, Panic}

\* C17: the tokens of every path hold no two adjacent `*`; runs of two or
\* more dots give one `*`: `$..a` and `$....a` give ["$", "*", "a"], `$..*`
\* gives ["$", "*"].
NoAdjacentStars ==
  \A p \in fixture.paths :
    (last.op = "parse" /\ last.err = NoErr)
      => /\ \A i \in 1..(Len(last.out) - 1) :
              ~(last.out[i] = <<"*">> /\ last.out[i + 1] = <<"*">>)
         /\ p \in {<<"$", ".", ".", "a">>, <<"$", ".", ".", ".", ".", "a">>}
              => last.out = <<<<"$">>, <<"*">>, <<"a">>>>
         /\ p = <<"$", ".", ".", "*">> => last.out = <<<<"$">>, <<"*">>>>

\* The latest call evaluated a filter with operator op.
Evaluated(op) == last.op = "evalFilter" /\ last.out[2] = op

\* What the left operand of the latest evalFilter call resolves to.
LeftOperand == getByPath(last.doc, doc, last.out[1])

\* C18: evalFilter with the operator "exists" returns true exactly when the
\* left operand resolves to a present value that is not null, and returns false
\* with no error when the left operand cannot be resolved.
ExistsNeverFails ==
  Evaluated(OpExists) =>
    /\ last.res = Bool(LeftOperand.err = NoErr /\ LeftOperand.v # Null)
    /\ last.err = NoErr

\* The latest call matched a resolved left operand that is not a string
\* against a well-formed pattern.
MatchedNonString ==
  /\ Evaluated(OpMatch)
  /\ compileRegexp(last.out[3]).err = NoErr
  /\ LeftOperand.err = NoErr
  /\ LeftOperand.v.t # "str"

\* C19: evalFilter with the operator "=~" and a well-formed /pattern/ as right
\* operand returns an error whenever the left operand resolves to a value that
\* is not a string; it never returns false without an error in that case.
MatchNonStringFails == MatchedNonString => last.err = ErrNotString

\* A number was matched against a pattern and the call failed.
MatchNumberFailed ==
  /\ MatchedNonString
  /\ LeftOperand.v = Num(1)
  /\ last.res = Bool(FALSE)
  /\ last.err = ErrNotString

\* TranslatePath returned a path for the document and the path of c.
Translated == last.op = "TranslatePath" /\ last.out # <<>>

\* C20: whenever TranslatePath returns a non-empty path q for a document and a
\* path, Get(doc, q) resolves to the element Get(doc, path) resolves to; a
\* single index rewritten into a filter on a discriminating field selects the
\* element the index stood for.
CanonPreservesTarget ==
  Translated =>
    /\ Get(doc, last.out).err = NoErr
    /\ Get(doc, last.out).res \in {Get(doc, c.path).res, Arr(<<Get(doc, c.path).res>>)}

\* C21: TranslatePath returns an error whenever a step cannot be resolved
\* against the document or the path resolves to nothing; it never returns an
\* empty path together with no error.
TranslateFailsOrAnswers ==
  last.op = "TranslatePath" => (last.out = <<>> => last.err # NoErr)

\* The decimal value of a number or of a text that parses as one:
\* mant / 10^scale, every digit read in base ten.
Decimal(o) ==
  IF o.t = "num" THEN [mant |-> o.n, scale |-> 0]
  ELSE LET neg  == o.s # <<>> /\ o.s[1] = "-"
           body == IF o.s # <<>> /\ o.s[1] \in {"-", "+"} THEN Tail(o.s) ELSE o.s
           digs == SelectSeq(body, LAMBDA ch : ch \in Digits)
           dot  == IndexOf(body, ".")
       IN [mant  |-> IF neg THEN 0 - DigitsVal(digs) ELSE DigitsVal(digs),
           scale |-> IF dot < 0 THEN 0 ELSE Len(body) - dot - 1]

\* The sign of a - b for two decimal values.
DecimalSign(a, b) ==
  LET l == a.mant * Pow10(b.scale)
      r == b.mant * Pow10(a.scale)
  IN IF l < r THEN -1 ELSE IF l > r THEN 1 ELSE 0

\* C22: compare(a, b, op) with op one of <, <=, ==, >=, > is the numeric
\* comparison of the values when both operands are numbers or texts that parse
\* as numbers, and the comparison of the string forms otherwise; any other
\* operator returns an error.
CompareNumericOrText ==
  last.op = "compare" =>
    LET a  == last.doc
        b  == last.out[1]
        op == last.out[2]
    IN IF op \notin {<<"<">>, <<"<", "=">>, <<"=", "=">>, <<">", "=">>, <<">">>}
       THEN last.err # NoErr
       ELSE /\ last.err = NoErr
            /\ last.res = Bool(Holds(IF isNumber(a) /\ isNumber(b)
                                     THEN DecimalSign(Decimal(a), Decimal(b))
                                     ELSE StrCmp(Format(a), Format(b)), op))

\* The index of the path of c, a path `$.a[i]`.
IndexOfPath == c.operations[1].args.ints[1]

\* C23: Set through a final single index i on an array of length n: for
\* -n <= i < 0 it replaces element n+i with the value and leaves every other
\* element as it was; for i < -n or i >= n it returns an index-out-of-range
\* error and changes nothing; it never aborts.
SetNegativeIndex ==
  (last.op = "Set" /\ c.path \in IdxPaths) =>
    LET n == Len(last.doc.m[<<"a">>].a)
        i == IndexOfPath
    IN /\ last.err # Panic
       /\ (i < 0 /\ 0 - n <= i) =>
            /\ last.err = NoErr
            /\ doc = [last.doc EXCEPT !.m[<<"a">>].a[n + i + 1] = last.res]
       /\ (i < 0 - n \/ i >= n) => (last.err = ErrSetIdxRange /\ doc = last.doc)

\* Paths that apply an index, a range, a filter or a key to the node "a".
StepsOnA ==
  {<<"$", ".", "a", "[", "0", "]">>, <<"$", ".", "a", "[", "0", ":", "]">>,
   <<"$", ".", "a", "[", "*", "]", ".", "b">>,
   <<"$", ".", "a", "[", "?", "(", "@", ".", "b", ")", "]">>, <<"$", ".", "a", ".", "b">>}

\* The latest call is a Get of one of these paths on the document whose "a"
\* is null.
GotThroughNull == last.op = "Get" /\ last.doc = DocNull /\ c.path \in StepsOnA

\* C24: a lookup that applies a key, index, range or filter step to a null
\* node returns a null-object error; it neither aborts nor returns a nil value
\* with no error.
NullNodeIsError == GotThroughNull => last.err \in {ErrGetFromNullObj, IsNull}

\* C25: whenever Lookup reads the operation at the step cursor the cursor
\* lies within the operations; in particular a compiled path with zero
\* operations (the bare path `$`) makes Lookup return the document itself
\* with no error.
BarePathReturnsDocument ==
  (last.op \in {"Lookup", "Get"} /\ Len(c.operations) = 0) =>
    (last.err = NoErr /\ last.res = last.doc)

\* C26: getByRange is total on arrays: for every array and every pair of
\* integer or absent bounds a range lookup returns either a sub-sequence or a
\* range-out-of-bounds error; a range whose start lies after its end, such as
\* `[3:1]` on five elements, does not perform an invalid slice.
RangeLookupTotal ==
  (last.op = "Get" /\ c.path \in RangePaths) =>
    \/ last.err \in {ErrFromRange, ErrToRange}
    \/ /\ last.err = NoErr
       /\ \E i \in 1..(MaxArr + 1), j \in 0..MaxArr :
            /\ j <= Len(last.doc.m[<<"a">>].a)
            /\ last.res = Arr(SubSeq(last.doc.m[<<"a">>].a, i, j))

\* The latest call parsed a token without error.
FragmentParsed == last.op = "parseFragment" /\ last.err = NoErr

\* C27: for every token parseFragment returns either an error or an
\* operation whose arguments match its kind: root, key and scan carry none,
\* idx a non-empty list of integers, range a pair of optional integers and
\* filter a filter string; a bracket body that holds `?` without being of the
\* form `?(...)` never yields a filter operation without a filter string.
FragmentArgsMatchKind ==
  FragmentParsed =>
    LET op   == last.out[2]
        args == last.out[4]
    IN CASE op \in {"root", "key", "scan"} -> args.kind = "nil"
         [] op = "idx"    -> args.kind = "ints" /\ Len(args.ints) > 0
         [] op = "range"  -> args.kind = "range"
         [] op = "filter" -> args.kind = "str"
         [] OTHER         -> FALSE

\* The bracket body of the token of the latest parseFragment call.
TokenBody ==
  LET token == last.out[1] IN SubSeq(token, IndexOf(token, "[") + 2, Len(token) - 1)

\* The latest call parsed a token `k[a:b]` with exactly one colon.
RangeTokenParsed ==
  /\ last.op = "parseFragment"
  /\ IndexOf(last.out[1], "[") >= 0
  /\ ~Contains(TokenBody, <<"?">>)
  /\ Len(Split(TokenBody, <<":">>)) = 2

\* The bound a side of a range stands for: the integer, or None when the
\* side is blank or not an integer.
BoundOf(side) ==
  IF Atoi(TrimSpaces(side)).ok THEN Some(Atoi(TrimSpaces(side)).v) ELSE None

\* C28: parseFragment on a token `k[a:b]` with exactly one colon returns a
\* range operation with no error, whose bound on each side is the integer
\* when the side parses as one and None when the side is blank or not an
\* integer, by the same rule on both sides.
RangeBoundsParsed ==
  RangeTokenParsed =>
    /\ last.err = NoErr
    /\ last.out[2] = "range"
    /\ last.out[4] = RangeArgs(BoundOf(Split(TokenBody, <<":">>)[1]),
                               BoundOf(Split(TokenBody, <<":">>)[2]))

\* The operand an operand text stands for: the text between the quotes when
\* it is quoted, the text itself otherwise.
Unquoted(t) == IF t[1] = "'" THEN SubSeq(t, 2, Len(t) - 1) ELSE t

\* C29: parseFilter treats single quotes as a toggle: the text between a pair
\* of quotes, spaces included, is one operand without the quotes, and after
\* the closing quote a space advances to the next field again; `'a b' == @.x`
\* parses to (a b, ==, @.x) as `@.x == 'a b'` parses to (@.x, ==, a b), and a
\* lone token parses to (token, exists, empty).
QuotesToggle ==
  last.op = "parseFilter" =>
    /\ \A l \in FilterOperands :
         (last.out[1] = l /\ l = Unquoted(l)) =>
           (last.err = NoErr /\ last.out[2] = <<FilterExpression(Unquoted(l), OpExists, <<>>)>>)
    /\ \A l \in FilterOperands, op \in FilterOps, r \in FilterOperands :
         last.out[1] = Comparison(l, op, r) =>
           (last.err = NoErr
              /\ last.out[2] = <<FilterExpression(Unquoted(l), op, Unquoted(r))>>)

\* All but the last operation of the path of c.
ParentOperations == SubSeq(c.operations, 1, Len(c.operations) - 1)

\* C30: Set resolves its parent the way Lookup does: the fragment that Set
\* obtains for all but the last operation, through _Lookup, has the value and
\* the error outcome of a Lookup of that prefix on the same document.
SetParentAsLookup ==
  (last.op = "Set" /\ Len(ParentOperations) > 0) =>
    /\ _Lookup(last.doc, ParentOperations).err = Lookup(ParentOperations, 0, last.doc).err
    /\ _Lookup(last.doc, ParentOperations).err = NoErr =>
         hVal(last.doc, _Lookup(last.doc, ParentOperations).h)
           = Lookup(ParentOperations, 0, last.doc).res

====
